---- MODULE Spec2Model ----
(***************************************************************************)
(* A model of astrbot_plugin_stock: the Resilient Fetcher                  *)
(* (_fetch_with_timeout / _retry_with_timeout) on its 3-worker thread pool *)
(* and the cooperative event loop, the chart lock of the command layer,    *)
(* the Market Data Source operations' failure handling and the symbol      *)
(* normalizer (_validate_and_correct_stock_code).                          *)
(***************************************************************************)
EXTENDS Integers, Sequences, FiniteSets, TLC

VARIABLES
  \* ---- Resilient Fetcher, worker pool, event loop (src/data_source.py) ----
  cfgRetries,   \* timeout_settings.max_retries of the configuration
  site,         \* per request: the provider call site it executes
  pc,           \* per request: "idle" | "sleep" | "await" | "direct" | "done"
  attempt,      \* per request: the loop variable `attempt` of _retry_with_timeout
  sleeps,       \* per request: the backoff sleeps made so far, in seconds
  fails,        \* per request: the failures observed so far, one per failed attempt
  raised,       \* per request: "none" | "ok" (returned) | a failure kind (raised)
  delivered,    \* per request: the attempt whose result was returned, or -1
  tstate,       \* per pool task <<request, attempt>>: its state
  queue,        \* the executor's FIFO work queue of task ids
  abandoned,    \* tasks whose fetch timed out (their asyncio future was cancelled)
  loopBusy,     \* the request whose provider call runs on the event-loop thread, or 0
  \* ---- chart commands and the plugin's chart lock (src/main.py, src/commands) ----
  enableChart,  \* features.enable_chart_generation of the configuration
  cpc,          \* per chart command: "idle" | "ready" | "waiting" | "rendering" | "rendered" | "done"
  chartFile,    \* per chart command: what plot_stock_chart returned, or "unset"
  reply,        \* per chart command: "none" | "image" | "message"
  locked,       \* asyncio.Lock._locked of the plugin's _lock
  waiters,      \* asyncio.Lock._waiters: the commands suspended in acquire(), oldest first
  terminated,   \* terminate() ran: the plugin no longer has its _lock attribute
  \* ---- Market Data Source public operations (src/data_source.py) ----
  enableUs,     \* features.enable_us_stock
  enableHk,     \* features.enable_hk_stock
  enableCrypto, \* features.enable_crypto
  srcCall,      \* the last public operation called, with its inputs
  srcResult,    \* how that call ended: [t |-> "return" | "raise", v |-> value]
  srcKeys,      \* the keys of the dict get_realtime returned
  srcTrace,     \* the providers get_daily called, in the order of their first call
  \* ---- symbol normalizer (src/data_source.py) ----
  code,         \* the input string, as a sequence of characters
  once,         \* _validate_and_correct_stock_code(code)
  twice,        \* _validate_and_correct_stock_code(once)
  npc,          \* "input" | "once" | "twice"
  \* ---- what a data source operation does with a symbol (src/data_source.py) ----
  route,        \* the operation applied to `code`, the provider it called and with what
  \* ---- stock and index commands (src/main.py, src/commands/stock_commands.py) ----
  autoCorrect,  \* enable_auto_correction of the configuration
  cmd,          \* the command given `code`: its implementation, reply and symbol
  \* ---- crypto pair normalizer (src/data_source.py) ----
  cbase,        \* the symbol argument, as a sequence of characters (empty: "" or None)
  cquote,       \* the vs_currency argument (empty: "" or None)
  pair,         \* _normalize_crypto_symbol(cbase, cquote)
  paired,       \* the normalizer has been applied
  \* ---- get_daily, from the provider's table to the records (src/data_source.py) ----
  columns,      \* df.columns: the column names of the provider's table, in order
  frame,        \* the rows of the table in the provider's order, each a function of the column
  dailyMax,     \* data_limits.daily_max_records of the configuration
  dailyArgs,    \* which of start_date and end_date get_daily is given
  records,      \* the list get_daily returned
  listed,       \* get_daily has returned
  \* ---- get_crypto_klines, from the exchange's bars to the list (src/data_source.py) ----
  bars,         \* klines_data: the bars of the exchange's answer, in fetch order
  klines,       \* the list get_crypto_klines returned
  barred,       \* get_crypto_klines has returned
  \* ---- get_crypto_list, from the exchange's tickers to the list (src/data_source.py) ----
  defaultVs,    \* crypto.default_vs_currency of the configuration
  tickers,      \* tickers_data: the exchange's 24 h tickers, in its order
  listLimit,    \* the limit argument
  coins,        \* the list get_crypto_list returned
  coined,       \* get_crypto_list has returned
  \* ---- the reply of a command to what the data source returned (src/main.py, src/commands) ----
  said,         \* the command, its implementation and the kind of message it replied with
  \* ---- plot_stock_chart, from the flags to the panels (src/main.py, src/utils/chart_utils.py) ----
  showVolume,   \* chart_style.show_volume of the configuration
  techAnalysis, \* features.enable_technical_analysis
  showIndicators, \* chart_style.show_indicators
  plot,         \* the call of plot_stock_chart: its implementation, panels, drawing and return value
  \* ---- calculate_kdj, from the bars to RSV, K, D and J (src/utils/chart_utils.py, src/main.py) ----
  ohlc,         \* df: the bars, oldest first, each with its high, low and close
  kdj,          \* what calculate_kdj computed: rsv, k, d and j, one value per bar
  \* ---- what a history command lists or charts of the series it fetched (src/main.py, src/commands) ----
  defaultLimit, \* default_limit of the configuration, as written there
  fetched,      \* the list the data source returned to the command
  shown,        \* the command, its arguments and the bars it listed or handed to plot_stock_chart
  \* ---- the row of the US quote table chosen for a ticker (src/data_source.py) ----
  snapshot,     \* the rows of ak.stock_us_spot_em's table, in its order: code and name
  wanted,       \* stock_code: the symbol without its .US suffix
  picked,       \* the operation and the row it chose, if any
  \* ---- get_daily, from the date range to the days of its records (src/data_source.py) ----
  daysBack,     \* data_limits.default_days_back of the configuration
  dated         \* the call of get_daily, the range it asked the provider for and the days of the records it returned

fetchVars == <<cfgRetries, site, pc, attempt, sleeps, fails, raised, delivered,
               tstate, queue, abandoned, loopBusy>>

chartVars == <<enableChart, cpc, chartFile, reply, locked, waiters, terminated>>

srcVars == <<enableUs, enableHk, enableCrypto, srcCall, srcResult, srcKeys, srcTrace>>

normVars == <<code, once, twice, npc>>

routeVars == <<route>>

\* the groups added to the four above
cmdVars == <<autoCorrect, cmd>>

cryptoVars == <<cbase, cquote, pair, paired>>

\* the variables of the computations on data
dailyVars == <<columns, frame, dailyMax, dailyArgs, records, listed>>

klineVars == <<bars, klines, barred>>

listVars == <<defaultVs, tickers, listLimit, coins, coined>>

\* the groups added to the three above
replyVars == <<said>>

plotVars == <<showVolume, techAnalysis, showIndicators, plot>>

kdjVars == <<ohlc, kdj>>

showVars == <<defaultLimit, fetched, shown>>

snapVars == <<snapshot, wanted, picked>>

datedVars == <<daysBack, dated>>

tailVars == <<listVars, replyVars, plotVars, kdjVars, showVars, snapVars, datedVars>>
notListTail == <<replyVars, plotVars, kdjVars, showVars, snapVars, datedVars>>
notReplyTail == <<listVars, plotVars, kdjVars, showVars, snapVars, datedVars>>
notPlotTail == <<listVars, replyVars, kdjVars, showVars, snapVars, datedVars>>
notKdjTail == <<listVars, replyVars, plotVars, showVars, snapVars, datedVars>>
notShowTail == <<listVars, replyVars, plotVars, kdjVars, snapVars, datedVars>>
notSnapTail == <<listVars, replyVars, plotVars, kdjVars, showVars, datedVars>>
notDatedTail == <<listVars, replyVars, plotVars, kdjVars, showVars, snapVars>>

seriesVars == <<cryptoVars, dailyVars, klineVars>>

calcVars == <<seriesVars, tailVars>>

moreVars == <<routeVars, cmdVars, calcVars>>

\* what a computation on data leaves alone
baseVars == <<fetchVars, chartVars, srcVars, normVars, routeVars, cmdVars>>

nonFetchVars == <<chartVars, srcVars, normVars, moreVars>>
nonChartVars == <<fetchVars, srcVars, normVars, moreVars>>
nonSrcVars == <<fetchVars, chartVars, normVars, moreVars>>
nonNormVars == <<fetchVars, chartVars, srcVars, moreVars>>

vars == <<fetchVars, chartVars, srcVars, normVars, moreVars>>

\* ------------------------------------------------------------------ bounds
NReq == 2
\* The largest configured max_retries explored with concurrent requests.
ConcRetries == 1
\* The largest configured max_retries explored for a single caller of retry.
MaxRetriesBound == 3
\* The number of chart commands in flight.
NCmd == 3
\* The largest number of rows in a provider's table.
MaxRows == 3
\* The largest configured daily_max_records.
MaxRecordsBound == 3
\* The largest number of bars in an answer of the exchange.
MaxBars == 3
\* The largest number of tickers in an answer of the exchange.
MaxTickers == 3

\* The days of history a provider has; the last is the day of the call.
MaxDay == 5

\* The rows a US quote table has at most.
MaxQuotes == 3

\* The bars of an answer long enough for the chart's sort to partition it.
LongBars == 20

\* The days a fetched history has at most; more than the smallest limit, 5.
MaxFetched == 7

\* Values of default_limit in the configuration: below, within and above the
\* range 5..60.
ConfiguredLimits == {1, 6, 100}
\* The largest limit given to get_crypto_list.
MaxListLimit == 3

\* ------------------------------------------------------- program constants
NWorkers == 3
BackoffCap == 5
StockRetries == 1

Requests == 1..NReq
Cmds == 1..NCmd
Attempts == 0..MaxRetriesBound
Tasks == Requests \X Attempts

Min(a, b) == IF a < b THEN a ELSE b

\* ------------------------------------------------------------- call sites
\* Every provider call of the Market Data Source, by the operation making it.
PoolSites == {"get_daily", "binance"}
DirectSites == {"get_realtime_cn", "get_hourly", "get_minutely", "get_index_realtime"}
Sites == PoolSites \cup DirectSites

\* How the call site runs the provider: through _retry_with_timeout on the
\* executor ("pool") or as a plain call inside the coroutine ("direct").
CallMode(s) ==
  CASE s = "get_daily"          -> "pool"    \* await self._retry_with_timeout(ak.stock_zh_a_hist, ...)
    [] s = "binance"            -> "pool"    \* await self._retry_with_timeout(make_request, ...)
    [] s = "get_realtime_cn"    -> "direct"  \* df = ak.stock_zh_a_spot_em() / ak.stock_hk_spot_em()
    [] s = "get_hourly"         -> "direct"  \* df = ak.stock_zh_a_hist_min_em(...)
    [] s = "get_minutely"       -> "direct"  \* df = ak.stock_zh_a_hist_min_em(...)
    [] s = "get_index_realtime" -> "direct"  \* df = ak.stock_zh_index_spot_em()

\* The max_retries argument the call site passes.
SiteRetries(s) == IF s = "binance" THEN cfgRetries ELSE StockRetries

MaxRetriesOf(r) == SiteRetries(site[r])

FailureKinds == {"Timeout", "Network", "Other"}

\* ------------------------------------------------- _retry_with_timeout
\* except (TimeoutError, ...) and the "network"/"connection" substring test.
RetryableAll(k) == TRUE
Retryable(k) == k \in {"Timeout", "Network"}

\* `if attempt == max_retries: break`
ExhaustedEarly(a, m) == a + 1 >= m
Exhausted(a, m) == a = m

\* `await asyncio.sleep(min(2 ** attempt, 5))`
Pow2(n) == IF n = 0 THEN 1 ELSE IF n = 1 THEN 2 ELSE IF n = 2 THEN 4
           ELSE IF n = 3 THEN 8 ELSE IF n = 4 THEN 16 ELSE 32
BackoffFromZero(a) == Min(Pow2(a - 1), BackoffCap)
Backoff(a) == Min(Pow2(a), BackoffCap)

\* ------------------------------------------------------ worker pool
Running == {t \in Tasks : tstate[t] = "running"}

\* ThreadPoolExecutor(max_workers=3): a queued task starts only on a free worker.
WorkerFreeUnbounded == TRUE
WorkerFree == Cardinality(Running) < NWorkers

\* asyncio.wait_for: the deadline fires while the asyncio future is not done,
\* whether the task is still queued, already running, or has returned on its
\* worker: the future is done only once the loop has run the callback the
\* worker posted with call_soon_threadsafe, which is when the caller gets the
\* result.
CanExpireOnlyRunning(st) == st = "running"
CanExpire(st) == st \in {"queued", "running", "finished"}

Finished(st) == st = "finished"

RemoveFromQueue(q, t) == SelectSeq(q, LAMBDA x : x # t)

CurTask(r) == <<r, attempt[r]>>

\* ------------------------------------------------------------------ Init
InitFetch(maxCfg) ==
  /\ cfgRetries \in 0..maxCfg
  /\ site = [r \in Requests |-> "none"]
  /\ pc = [r \in Requests |-> "idle"]
  /\ attempt = [r \in Requests |-> 0]
  /\ sleeps = [r \in Requests |-> <<>>]
  /\ fails = [r \in Requests |-> <<>>]
  /\ raised = [r \in Requests |-> "none"]
  /\ delivered = [r \in Requests |-> -1]
  /\ tstate = [t \in Tasks |-> "none"]
  /\ queue = <<>>
  /\ abandoned = {}
  /\ loopBusy = 0

\* The plugin after __init__, no chart command issued yet.
InitChart(flags) ==
  /\ enableChart \in flags
  /\ cpc = [c \in Cmds |-> "idle"]
  /\ chartFile = [c \in Cmds |-> "unset"]
  /\ reply = [c \in Cmds |-> "none"]
  /\ locked = FALSE
  /\ waiters = <<>>
  /\ terminated = FALSE

NoCall == [op |-> "none", sym |-> "none", dates |-> "none", p1 |-> "none", p2 |-> "none", p3 |-> "none"]

\* The data source after __init__, no public operation called yet.
InitSource(flags) ==
  /\ enableUs \in flags
  /\ enableHk \in flags
  /\ enableCrypto \in flags
  /\ srcCall = NoCall
  /\ srcResult = [t |-> "none", v |-> "none"]
  /\ srcKeys = {}
  /\ srcTrace = <<>>

\* The normalizer before it is applied to one of the given inputs.
InitNorm(inputs) ==
  /\ code \in inputs
  /\ once = <<>>
  /\ twice = <<>>
  /\ npc = "input"

NoRoute == [op |-> "none", ok |-> TRUE, provider |-> "none", sym |-> <<>>, arg |-> <<>>]

\* No operation has been applied to a symbol yet.
InitRoute == route = NoRoute

\* The parts of the plugin a specification leaves alone.
NoCmd == [name |-> "none", impl |-> "none", reply |-> "none", sym |-> <<>>]

\* The plugin after __init__, no stock or index command issued yet.
InitCmd(flags) ==
  /\ autoCorrect \in flags
  /\ cmd = NoCmd

\* The crypto pair normalizer before it is applied to one of the given inputs.
InitCrypto(bases, quotes) ==
  /\ cbase \in bases
  /\ cquote \in quotes
  /\ pair = <<>>
  /\ paired = FALSE

\* A cell of the provider's table: a number, NaN, or text that float() rejects.
Num(v) == [k |-> "num", v |-> v]
NaN == [k |-> "nan", v |-> 0]
BadCell == [k |-> "bad", v |-> 0]

\* The close cells of the tables.
CloseCells == {Num(9), Num(10), Num(12), NaN, BadCell}

\* The close cells of the tables with dates that tie or are missing.
PlainCloses == {Num(9), Num(12)}

\* the dates of n rows, in any order of the rows
Orders(n) == {o \in [1..n -> 1..n] : \A i, j \in 1..n : o[i] = o[j] => i = j}

\* the date cells of n rows of which some have no date (NaN) or share one
TiedDates(n) ==
  {o \in [1..n -> {Num(d) : d \in 1..n} \cup {NaN}] :
     \E i \in 1..n : o[i] = NaN \/ \E j \in 1..n : j # i /\ o[j] = o[i]}

\* The date cells of tables long enough for the sort to partition them: 18
\* rows over three days, 18 rows of one day, 19 rows over five days, and 24
\* rows over four days of which every sixth has no date.
LongDates ==
  {[i \in 1..18 |-> Num(((i * 5) % 3) + 1)],
   [i \in 1..18 |-> Num(1)],
   [i \in 1..19 |-> Num(((i * i) % 5) + 1)],
   [i \in 1..24 |-> IF i % 6 = 0 THEN NaN ELSE Num(((i * 7) % 4) + 1)]}

\* row i of a table: its date and close where the layout has them, text in
\* the column tcol if it is the row that holds text there, the row's number
\* in every other column
TableRow(cols, dcol, ccol, tcol, i, date, close) ==
  [c \in {cols[k] : k \in DOMAIN cols} |->
     IF c = dcol THEN date ELSE IF c = ccol THEN close
     ELSE IF c = tcol THEN BadCell ELSE Num(i)]

\* the table whose row t, if there is one, holds text in the column tcol
TableRows(cols, dcol, ccol, tcol, t, o, cl) ==
  [i \in DOMAIN o |->
     TableRow(cols, dcol, ccol, IF i = t THEN tcol ELSE "", i, o[i], cl[i])]

\* get_daily before it is given a table and its date arguments. The table
\* has one of the layouts, each given with its date, close, open and volume
\* columns, and is one of: up to maxRows rows of distinct dates in any order,
\* any closes, at most one row with text for its open, its volume or its
\* serial number; up to
\* maxRows rows with dates that tie or are missing; one of the long tables,
\* under a limit that cuts it or under one that keeps all its rows.
InitDaily(layouts, maxRows, limits, args, long) ==
  /\ \E lay \in layouts :
       /\ columns = lay.columns
       /\ \/ /\ \E n \in 0..maxRows :
                  \E o \in Orders(n), cl \in [1..n -> CloseCells], t \in 0..n,
                     tcol \in {lay.open, lay.volume, "serial"} :
                    frame = TableRows(lay.columns, lay.date, lay.close, tcol, t,
                                      [i \in 1..n |-> Num(o[i])], cl)
             /\ dailyMax \in limits
          \/ /\ \E n \in 1..maxRows :
                  \E o \in TiedDates(n), cl \in [1..n -> PlainCloses] :
                    frame = TableRows(lay.columns, lay.date, lay.close, "", 0, o, cl)
             /\ dailyMax \in limits
          \/ \E o \in long :
               /\ frame = TableRows(lay.columns, lay.date, lay.close, "", 0, o,
                                    [i \in DOMAIN o |-> Num(i)])
               /\ dailyMax \in limits \cup {Len(o)}
  /\ dailyArgs \in args
  /\ records = <<>>
  /\ listed = FALSE

NoLayout == [columns |-> <<>>, date |-> "", close |-> "", open |-> "", volume |-> ""]

\* The close fields of the bars: numbers, zero among them, or one that float()
\* rejects.
KlineCells == {Num(0), Num(9), Num(12), BadCell}

\* A bar of the exchange: its open time and its close field.
Bar(t, close) == [timestamp |-> t, close |-> close]

\* get_crypto_klines before it is given an answer of up to maxBars bars, which
\* the exchange lists in ascending order of open time.
InitKlines(maxBars) ==
  /\ \E n \in 0..maxBars :
       \E cl \in [1..n -> KlineCells] : bars = [i \in 1..n |-> Bar(i, cl[i])]
  /\ klines = <<>>
  /\ barred = FALSE

\* A ticker of the exchange: the pair's symbol and its quote volume.
Ticker(symbol, volume) == [symbol |-> symbol, quoteVolume |-> volume]

\* get_crypto_list before it is given the tickers of some of the pairs, each
\* pair listed once, with quote volumes from `volumes`.
InitList(quotes, pairs, maxTickers, volumes, limits) ==
  /\ defaultVs \in quotes
  /\ \E n \in 0..maxTickers :
       \E sy \in [1..n -> pairs], vo \in [1..n -> volumes] :
         /\ \A i, j \in 1..n : sy[i] = sy[j] => i = j
         /\ tickers = [i \in 1..n |-> Ticker(sy[i], vo[i])]
  /\ listLimit \in limits
  /\ coins = <<>>
  /\ coined = FALSE

\* plot_stock_chart before it is called, under some configuration of the
\* three panel flags.
InitPlot(flags) ==
  /\ showVolume \in flags /\ techAnalysis \in flags /\ showIndicators \in flags
  /\ plot = [impl |-> "none"]

\* calculate_kdj before it is called, on a series of up to maxBars bars with
\* high, low and close drawn from `prices`.
InitKdj(maxBars, prices) ==
  /\ \E n \in 0..maxBars :
       \E hi \in [1..n -> prices], lo \in [1..n -> prices], cl \in [1..n -> prices] :
         ohlc = [i \in 1..n |-> [high |-> hi[i], low |-> lo[i], close |-> cl[i]]]
  /\ kdj = [done |-> FALSE]

\* A history command before it is called, under a configured default_limit.
InitShow(defaults) ==
  /\ defaultLimit \in defaults
  /\ fetched = <<>>
  /\ shown = [command |-> "none"]

\* A row of the US quote table: its code, a market prefix and the ticker, and
\* its name.
Quote(symbol, name) == [code |-> symbol, name |-> name]

\* get_realtime / get_daily for a US symbol before the call, given a quote
\* table of up to maxRows of the rows, each once, and one of the tickers.
InitSnap(rows, maxRows, wants) ==
  /\ \E n \in 0..maxRows :
       \E f \in [1..n -> rows] :
         /\ \A i, j \in 1..n : f[i] = f[j] => i = j
         /\ snapshot = f
  /\ wanted \in wants
  /\ picked = [op |-> "none"]

\* get_daily before it is called with a date range, under a configured
\* default_days_back.
InitDated(lookbacks) ==
  /\ daysBack \in lookbacks
  /\ dated = [sym |-> "none"]

\* The computations no request has been made of.
QuietSeries == InitCrypto({<<>>}, {<<>>}) /\ InitDaily({NoLayout}, 0, {1}, {"neither"}, {}) /\ InitKlines(0)
QuietList == InitList({<<"U", "S", "D", "T">>}, {}, 0, {}, {1})
Unsaid == [command |-> "none", impl |-> "none", reply |-> "none"]
QuietPlot == InitPlot({TRUE})
QuietKdj == InitKdj(0, {})
QuietShow == InitShow({20})
QuietSnap == InitSnap({}, 0, {<<>>})
QuietDated == InitDated({90})
QuietReply == said = Unsaid
InitTail == QuietList /\ QuietReply /\ QuietPlot /\ QuietKdj /\ QuietShow /\ QuietSnap /\ QuietDated

InitCalc == QuietSeries /\ InitTail

InitMore == InitRoute /\ InitCmd({TRUE}) /\ InitCalc

Init ==
  /\ InitFetch(ConcRetries) /\ InitChart({TRUE}) /\ InitSource({TRUE}) /\ InitNorm({<<>>})
  /\ InitMore

\* loop.run_in_executor(self._executor, wrapper): the task joins the work queue.
Submit(t) ==
  /\ tstate' = [tstate EXCEPT ![t] = "queued"]
  /\ queue' = Append(queue, t)

\* A Market Data Source operation reaches its provider call.
CallPool(r, s) ==
  /\ loopBusy = 0
  /\ pc[r] = "idle"
  /\ CallMode(s) = "pool"
  /\ site' = [site EXCEPT ![r] = s]
  /\ pc' = [pc EXCEPT ![r] = "await"]
  /\ Submit(<<r, 0>>)
  /\ UNCHANGED <<cfgRetries, attempt, sleeps, fails, raised, delivered, abandoned, loopBusy>>
  /\ UNCHANGED nonFetchVars

\* The provider is called inside the coroutine: the event-loop thread runs it.
CallDirect(r, s) ==
  /\ loopBusy = 0
  /\ pc[r] = "idle"
  /\ CallMode(s) = "direct"
  /\ site' = [site EXCEPT ![r] = s]
  /\ pc' = [pc EXCEPT ![r] = "direct"]
  /\ loopBusy' = r
  /\ UNCHANGED <<cfgRetries, attempt, sleeps, fails, raised, delivered, tstate, queue, abandoned>>
  /\ UNCHANGED nonFetchVars

\* The direct provider call returns or raises; the operation's own try/except
\* turns a failure into its empty value.
DirectReturn(r) ==
  /\ pc[r] = "direct"
  /\ loopBusy = r
  /\ loopBusy' = 0
  /\ pc' = [pc EXCEPT ![r] = "done"]
  /\ \E k \in {"ok"} \cup FailureKinds : raised' = [raised EXCEPT ![r] = k]
  /\ UNCHANGED <<cfgRetries, site, attempt, sleeps, fails, delivered, tstate, queue, abandoned>>
  /\ UNCHANGED nonFetchVars

\* A worker thread takes the oldest queued task and invokes the operation.
WorkerStart ==
  /\ queue # <<>>
  /\ WorkerFree
  /\ tstate' = [tstate EXCEPT ![Head(queue)] = "running"]
  /\ queue' = Tail(queue)
  /\ UNCHANGED <<cfgRetries, site, pc, attempt, sleeps, fails, raised, delivered, abandoned, loopBusy>>
  /\ UNCHANGED nonFetchVars

\* The operation returns or raises on its worker and posts its result to the
\* loop. The result of a task whose fetch already timed out has no future to
\* go to: it is dropped.
WorkerFinish(t) ==
  /\ tstate[t] = "running"
  /\ tstate' = [tstate EXCEPT ![t] = IF t \in abandoned THEN "discarded" ELSE "finished"]
  /\ UNCHANGED <<cfgRetries, site, pc, attempt, sleeps, fails, raised, delivered, queue, abandoned, loopBusy>>
  /\ UNCHANGED nonFetchVars

\* The except clauses of _retry_with_timeout for a failure of kind k of the
\* current attempt, up to `raise` / `raise last_exception` or the next
\* iteration's backoff sleep.
AfterFailure(r, k) ==
  /\ fails' = [fails EXCEPT ![r] = Append(@, k)]
  /\ IF Retryable(k) /\ ~Exhausted(attempt[r], MaxRetriesOf(r))
     THEN /\ attempt' = [attempt EXCEPT ![r] = @ + 1]
          /\ sleeps' = [sleeps EXCEPT ![r] = Append(@, Backoff(attempt[r] + 1))]
          /\ pc' = [pc EXCEPT ![r] = "sleep"]
          /\ raised' = raised
     ELSE /\ pc' = [pc EXCEPT ![r] = "done"]
          /\ raised' = [raised EXCEPT ![r] = k]
          /\ UNCHANGED <<attempt, sleeps>>

\* The loop runs the callback the worker posted and the awaited future is
\* done: _fetch_with_timeout returns the result, or the operation's exception
\* is re-raised into _retry_with_timeout. The callback leaves a future alone
\* that wait_for has cancelled in the meantime.
Deliver(r) ==
  /\ loopBusy = 0
  /\ pc[r] = "await"
  /\ Finished(tstate[CurTask(r)])
  /\ CurTask(r) \notin abandoned
  /\ \/ /\ pc' = [pc EXCEPT ![r] = "done"]
        /\ raised' = [raised EXCEPT ![r] = "ok"]
        /\ delivered' = [delivered EXCEPT ![r] = attempt[r]]
        /\ UNCHANGED <<attempt, sleeps, fails>>
     \/ /\ \E k \in FailureKinds : AfterFailure(r, k)
        /\ UNCHANGED delivered
  /\ UNCHANGED <<cfgRetries, site, tstate, queue, abandoned, loopBusy>>
  /\ UNCHANGED nonFetchVars

\* The deadline of asyncio.wait_for expires: wait_for finds the future of
\* run_in_executor not done, cancels it and awaits it. Only the asyncio future
\* is cancelled here; the work item of the executor is untouched until the
\* future's callback runs, and the caller is still suspended. A task that has
\* returned on its worker stays as it is: its result is never delivered.
TimeoutFire(r) ==
  /\ loopBusy = 0
  /\ pc[r] = "await"
  /\ CurTask(r) \notin abandoned
  /\ CanExpire(tstate[CurTask(r)])
  /\ abandoned' = abandoned \cup {CurTask(r)}
  /\ UNCHANGED <<cfgRetries, site, pc, attempt, sleeps, fails, raised, delivered,
                 tstate, queue, loopBusy>>
  /\ UNCHANGED nonFetchVars

\* The callback of the cancelled future cancels the executor's work item when
\* no worker has taken it yet: the task leaves the queue and never runs. A
\* worker that became free before this callback has already started the task.
CancelWorkItem(t) ==
  /\ loopBusy = 0
  /\ t \in abandoned
  /\ tstate[t] = "queued"
  /\ tstate' = [tstate EXCEPT ![t] = "cancelled"]
  /\ queue' = RemoveFromQueue(queue, t)
  /\ UNCHANGED <<cfgRetries, site, pc, attempt, sleeps, fails, raised, delivered,
                 abandoned, loopBusy>>
  /\ UNCHANGED nonFetchVars

\* The caller resumes, after the callback of the cancelled future has run:
\* wait_for raises asyncio.TimeoutError, which _fetch_with_timeout turns into
\* TimeoutError for _retry_with_timeout.
TimeoutRaise(r) ==
  /\ loopBusy = 0
  /\ pc[r] = "await"
  /\ CurTask(r) \in abandoned
  /\ tstate[CurTask(r)] # "queued"
  /\ AfterFailure(r, "Timeout")
  /\ UNCHANGED <<cfgRetries, site, delivered, tstate, queue, abandoned, loopBusy>>
  /\ UNCHANGED nonFetchVars

\* The backoff sleep is over: the next attempt's _fetch_with_timeout starts.
Wake(r) ==
  /\ loopBusy = 0
  /\ pc[r] = "sleep"
  /\ pc' = [pc EXCEPT ![r] = "await"]
  /\ Submit(CurTask(r))
  /\ UNCHANGED <<cfgRetries, site, attempt, sleeps, fails, raised, delivered, abandoned, loopBusy>>
  /\ UNCHANGED nonFetchVars

PoolNext ==
  \/ \E r \in Requests, s \in Sites : CallPool(r, s)
  \/ WorkerStart
  \/ \E t \in Tasks : WorkerFinish(t)
  \/ \E r \in Requests : Deliver(r)
  \/ \E r \in Requests : TimeoutFire(r)
  \/ \E t \in Tasks : CancelWorkItem(t)
  \/ \E r \in Requests : TimeoutRaise(r)
  \/ \E r \in Requests : Wake(r)

Next ==
  \/ PoolNext
  \/ \E r \in Requests, s \in Sites : CallDirect(r, s)
  \/ \E r \in Requests : DirectReturn(r)

Spec == Init /\ [][Next]_vars

\* One caller of _retry_with_timeout alone on the pool, for every configured
\* max_retries up to MaxRetriesBound.
RetryInit ==
  /\ InitFetch(MaxRetriesBound) /\ InitChart({TRUE}) /\ InitSource({TRUE}) /\ InitNorm({<<>>})
  /\ InitMore

RetryNext ==
  \/ \E s \in Sites : CallPool(1, s)
  \/ WorkerStart
  \/ \E t \in Tasks : WorkerFinish(t)
  \/ Deliver(1)
  \/ TimeoutFire(1)
  \/ \E t \in Tasks : CancelWorkItem(t)
  \/ TimeoutRaise(1)
  \/ Wake(1)

RetrySpec == RetryInit /\ [][RetryNext]_vars

\* The requests of the data source together, those that go through the pool
\* and those whose provider call runs on the event-loop thread. The event loop
\* runs every ready callback and every expired timer when its thread is free:
\* a done future is delivered, a deadline fires, the callback of a cancelled
\* future runs, a sleep ends. Nothing makes an operation return, on a worker
\* or on the loop thread, and nothing makes a worker pick up a task.
LiveSpec ==
  /\ Init
  /\ [][Next]_vars
  /\ \A r \in Requests :
       /\ WF_vars(Deliver(r))
       /\ WF_vars(TimeoutFire(r))
       /\ WF_vars(TimeoutRaise(r))
       /\ WF_vars(Wake(r))
  /\ WF_vars(\E t \in Tasks : CancelWorkItem(t))

\* ------------------------------------------- data source public operations
\* The symbol argument, by what the normalizer and the pattern test make of it:
\*   "a", "hk", "us"  a code of that market, possibly after correction
\*   "odd"      changed by the normalizer but still without a market suffix
\*   "invalid"  unchanged by the normalizer and not matching the pattern
\*   "nonstr"   not a string: re.match raises TypeError
SymClasses == {"a", "hk", "us", "odd", "invalid", "nonstr"}

\* The symbol argument of the operations that do not test it against the
\* pattern (index and crypto): a string, a value without string methods that
\* is true in a condition (123: "nonstr"), or one that is false (None, 0:
\* "falsy"), which _normalize_crypto_symbol turns into '' before any string
\* method is called on it.
PlainSyms == {"str", "nonstr", "falsy"}

\* Which of start_date / end_date the caller of get_daily gives.
DateArgs == {"neither", "both", "start", "end"}

\* What a provider call ends with, after the retries where it has any:
\*   "rows"       a well-formed, non-empty response holding the requested code
\*   "nomatch"    a well-formed response without the requested code
\*   "empty"      an empty frame / list / object
\*   "null"       None
\*   "malformed"  a response without the expected columns or keys
\*   "badrows"    a response whose fields do not convert to numbers
\*   or a failure kind, raised
Responses == {"rows", "nomatch", "empty", "null", "malformed", "badrows"}
ProviderBehaviours == Responses \cup FailureKinds

Ret(v) == [t |-> "return", v |-> v]
Raise(k) == [t |-> "raise", v |-> k]

\* The provider call itself, direct or through _retry_with_timeout.
Call(p) == IF p \in FailureKinds THEN Raise(p) ELSE Ret(p)

\* try: <body> except Exception: return h
CatchNothing(body, h) == body
Catch(body, h) == IF body.t = "raise" THEN Ret(h) ELSE body

\* get_daily, from the frame to the bars: `if df is None or df.empty: return
\* []`; columns are found by name or else taken by position, a missing value
\* becomes 0; a row whose fields do not convert is skipped by the per-row
\* try/except.
DailyRows(c) ==
  IF c.t = "raise" THEN c
  ELSE IF c.v \in {"null", "empty"} THEN Ret("[]")
  ELSE IF c.v = "badrows" THEN Ret("[]")
  ELSE Ret("rows")

\* get_hourly / get_minutely, from the frame to the bars: sort_values('时间')
\* raises without that column; a row that does not convert is skipped.
IntradayRows(c) ==
  IF c.t = "raise" THEN c
  ELSE IF c.v \in {"null", "empty"} THEN Ret("[]")
  ELSE IF c.v = "malformed" THEN Raise("Other")
  ELSE IF c.v = "badrows" THEN Ret("[]")
  ELSE Ret("rows")

\* From the provider's table to one quote: `match = df[df['代码'] == code]`,
\* `if match.empty: return {}`, then float(row[...]) for each field.
FrameToQuote(c) ==
  IF c.t = "raise" THEN c
  ELSE IF c.v \in {"null", "malformed", "badrows"} THEN Raise("Other")
  ELSE IF c.v \in {"empty", "nomatch"} THEN Ret("{}")
  ELSE Ret("quote")

\* `corrected = self._validate_and_correct_stock_code(ts_code)` and the
\* pattern test of the unchanged code, common to the four stock operations.
Validate(sym, none, rest) ==
  IF sym = "nonstr" THEN Raise("Other")
  ELSE IF sym = "invalid" THEN Ret(none)
  ELSE rest

\* get_daily, US branch: the quote table gives the history symbol, then the
\* primary history call; their failures are swallowed and leave df as None.
\* The quote table has a row of the ticker whatever its other fields hold.
UsMapped(p1) == p1 \in {"rows", "badrows"}

UsPrimary(p1, p2) ==
  IF UsMapped(p1) /\ p2 \notin FailureKinds THEN p2 ELSE "null"

\* `if df is None or df.empty:` before the secondary history call
UsSecondaryAlways(d) == TRUE
UsSecondary(d) == d \in {"null", "empty"}

\* ... then the secondary history call if df is None or empty, its failure
\* swallowed as well.
UsFrame(p1, p2, p3) ==
  LET d == UsPrimary(p1, p2)
  IN  IF UsSecondary(d)
      THEN (IF p3 \in FailureKinds THEN d ELSE p3)
      ELSE d

\* The providers the US branch calls: the quote table, the primary history
\* when the table maps the ticker, the secondary history when the primary
\* left df None or empty.
UsTrace(p1, p2, p3) ==
  <<"stock_us_spot_em">>
    \o (IF UsMapped(p1) THEN <<"stock_us_hist">> ELSE <<>>)
    \o (IF UsSecondary(UsPrimary(p1, p2)) THEN <<"stock_us_daily">> ELSE <<>>)

\* get_daily imports datetime inside `if not start_date:`, which makes the
\* name local to the function: with a start date and no end date,
\* `end_date = datetime.now()` raises UnboundLocalError.
DatesRaise(dates) == dates = "start"

DailyResult(sym, dates, p1, p2, p3) ==
  Catch(Validate(sym, "[]",
          IF DatesRaise(dates) THEN Raise("Other")
          ELSE IF sym = "hk" /\ ~enableHk THEN Ret("[]")
          ELSE IF sym = "us" /\ ~enableUs THEN Ret("[]")
          ELSE IF sym = "us"
               THEN Catch(DailyRows(Ret(UsFrame(p1, p2, p3))), "[]")
          ELSE DailyRows(Call(p1))),
        "[]")

\* The providers get_daily calls on its way to DailyResult.
DailyTrace(sym, dates, p1, p2, p3) ==
  IF sym \in {"nonstr", "invalid"} \/ DatesRaise(dates) THEN <<>>
  ELSE IF sym = "hk" THEN (IF enableHk THEN <<"stock_hk_hist">> ELSE <<>>)
  ELSE IF sym = "us" THEN (IF enableUs THEN UsTrace(p1, p2, p3) ELSE <<>>)
  ELSE <<"stock_zh_a_hist">>

\* get_realtime, US branch: an empty table, no match, a timeout and any other
\* failure each return an error object; a field that is missing or does not
\* convert becomes 0.
UsRealtime(p1) ==
  Catch(IF p1 \in FailureKinds THEN Raise(p1)
        ELSE IF p1 \in {"null", "empty", "nomatch", "malformed"} THEN Ret("error")
        ELSE Ret("quote"), "error")

RealtimeResult(sym, p1) ==
  Catch(Validate(sym, "{}",
          IF sym \in {"a", "hk"} THEN FrameToQuote(Call(p1))
          ELSE IF sym = "us"
               THEN (IF ~enableUs THEN Ret("error") ELSE UsRealtime(p1))
          ELSE Ret("{}")),
        "{}")

\* get_hourly and get_minutely: A-shares only, everything else is [].
IntradayResult(sym, p1) ==
  Catch(Validate(sym, "[]",
          IF sym = "a" THEN IntradayRows(Call(p1)) ELSE Ret("[]")),
        "[]")

\* get_index_realtime: the provider is called first, then the code is used.
IndexRealtimeResult(sym, p1) ==
  Catch(Catch(IF p1 \in FailureKinds THEN Raise(p1)
              ELSE IF sym \in {"nonstr", "falsy"} THEN Raise("Other")
              ELSE FrameToQuote(Call(p1)), "{}"), "{}")

\* _binance_api_request: any failure of the request becomes {}.
BinanceRequest(p) == Catch(Call(p), "{}")

\* `if not ticker_data:` and its like
Falsy(v) == v \in {"null", "empty", "{}"}

\* get_crypto_price: a missing key defaults to 0, a value that does not
\* convert raises, and so does symbol.upper() of the result's name on a
\* symbol that is no string.
CryptoPriceResult(sym, p1) ==
  IF ~enableCrypto THEN Ret("error")
  ELSE Catch(IF sym = "nonstr" THEN Raise("Other")
             ELSE IF Falsy(BinanceRequest(p1).v) THEN Ret("error")
             ELSE IF BinanceRequest(p1).v = "badrows" THEN Raise("Other")
             ELSE IF sym = "falsy" THEN Raise("Other")
             ELSE Ret("quote"), "error")

\* get_crypto_list: ticker['symbol'] and float(ticker['quoteVolume']) raise on
\* a ticker without them.
CryptoListResult(p1) ==
  IF ~enableCrypto THEN Ret("[]")
  ELSE Catch(IF Falsy(BinanceRequest(p1).v) THEN Ret("[]")
             ELSE IF BinanceRequest(p1).v \in {"malformed", "badrows"} THEN Raise("Other")
             ELSE IF BinanceRequest(p1).v = "nomatch" THEN Ret("[]")
             ELSE Ret("rows"), "[]")

\* get_exchange_info: read with .get() and defaults; symbol_info['baseAsset']
\* raises on a symbol entry without it.
ExchangeInfoResult(p1) ==
  IF ~enableCrypto THEN Ret("{}")
  ELSE Catch(IF Falsy(BinanceRequest(p1).v) THEN Ret("{}")
             ELSE IF BinanceRequest(p1).v = "badrows" THEN Raise("Other")
             ELSE Ret("info"), "{}")

\* get_crypto_klines: a kline that cannot be read or converted is skipped.
\* The symbol is used by the normalizer only, so that None and 0 are
\* requested as '' and answered with whatever the provider returns.
CryptoKlinesResult(sym, p1) ==
  IF ~enableCrypto THEN Ret("[]")
  ELSE Catch(IF sym = "nonstr" THEN Raise("Other")
             ELSE IF Falsy(BinanceRequest(p1).v) THEN Ret("[]")
             ELSE IF BinanceRequest(p1).v \in {"malformed", "badrows"} THEN Ret("[]")
             ELSE Ret("rows"), "[]")

\* The keys of the dicts get_realtime returns: a quote of each market, and
\* the error objects of the US branch.
QuoteKeys(sym) ==
  CASE sym = "a" -> {"ts_code", "price", "open", "high", "low", "pre_close",
                     "volume", "amount", "time"}
    [] sym = "hk" -> {"ts_code", "price", "open", "high", "low", "pre_close",
                      "volume", "time"}
    [] sym = "us" -> {"ts_code", "time", "price", "open", "high", "low",
                      "pre_close", "volume", "market_cap", "name"}
HintedError == {"error", "ts_code", "suggestion"}
PlainError == {"error", "ts_code"}
DisabledError(enabled) == IF enabled THEN HintedError ELSE PlainError

\* get_realtime by the keys of what it returns: {} has none; an error object
\* comes from the US branch only, the one of a disabled market without a
\* suggestion.
RealtimeKeys(sym, p1) ==
  LET r == RealtimeResult(sym, p1)
  IN  IF r.t # "return" \/ r.v = "{}" THEN {}
      ELSE IF r.v = "error" THEN DisabledError(enableUs)
      ELSE QuoteKeys(sym)

\* Only get_realtime's dict is followed key by key.
ResultKeys(op, sym, p1) == IF op = "get_realtime" THEN RealtimeKeys(sym, p1) ELSE {}

\* Only get_daily's provider calls are followed one by one here.
ResultTrace(op, sym, dates, p1, p2, p3) ==
  IF op = "get_daily" THEN DailyTrace(sym, dates, p1, p2, p3) ELSE <<>>

\* The public operations, each recording its call and how it ended. They keep
\* no state from one call to the next, so a behaviour holds one call.
Called(op, sym, dates, p1, p2, p3, res) ==
  /\ srcCall = NoCall
  /\ srcCall' = [op |-> op, sym |-> sym, dates |-> dates, p1 |-> p1, p2 |-> p2, p3 |-> p3]
  /\ srcResult' = res
  /\ srcKeys' = ResultKeys(op, sym, p1)
  /\ srcTrace' = ResultTrace(op, sym, dates, p1, p2, p3)
  /\ UNCHANGED <<enableUs, enableHk, enableCrypto>>

Record(op, sym, dates, p1, p2, p3, res) ==
  /\ Called(op, sym, dates, p1, p2, p3, res)
  /\ UNCHANGED nonSrcVars

get_daily(sym, dates, p1, p2, p3) ==
  Record("get_daily", sym, dates, p1, p2, p3, DailyResult(sym, dates, p1, p2, p3))

get_realtime(sym, p1) ==
  Record("get_realtime", sym, "none", p1, "none", "none", RealtimeResult(sym, p1))

get_hourly(sym, p1) ==
  Record("get_hourly", sym, "none", p1, "none", "none", IntradayResult(sym, p1))

get_minutely(sym, p1) ==
  Record("get_minutely", sym, "none", p1, "none", "none", IntradayResult(sym, p1))

get_index_realtime(sym, p1) ==
  Record("get_index_realtime", sym, "none", p1, "none", "none", IndexRealtimeResult(sym, p1))

get_crypto_price(sym, p1) ==
  Record("get_crypto_price", sym, "none", p1, "none", "none", CryptoPriceResult(sym, p1))

get_crypto_list(p1) ==
  Record("get_crypto_list", "none", "none", p1, "none", "none", CryptoListResult(p1))

get_exchange_info(p1) ==
  Record("get_exchange_info", "none", "none", p1, "none", "none", ExchangeInfoResult(p1))

get_crypto_klines(sym, p1) ==
  Record("get_crypto_klines", sym, "none", p1, "none", "none", CryptoKlinesResult(sym, p1))

SourceInit ==
  /\ InitFetch(0) /\ InitChart({TRUE}) /\ InitSource(BOOLEAN) /\ InitNorm({<<>>})
  /\ InitMore

SourceNext ==
  \/ \E sym \in SymClasses, dates \in DateArgs, p1 \in ProviderBehaviours :
       \E p2, p3 \in (IF sym = "us" THEN ProviderBehaviours ELSE {"none"}) :
         get_daily(sym, dates, p1, p2, p3)
  \/ \E sym \in SymClasses, p1 \in ProviderBehaviours : get_realtime(sym, p1)
  \/ \E sym \in SymClasses, p1 \in ProviderBehaviours : get_hourly(sym, p1)
  \/ \E sym \in SymClasses, p1 \in ProviderBehaviours : get_minutely(sym, p1)
  \/ \E sym \in PlainSyms, p1 \in ProviderBehaviours : get_index_realtime(sym, p1)
  \/ \E sym \in PlainSyms, p1 \in ProviderBehaviours : get_crypto_price(sym, p1)
  \/ \E p1 \in ProviderBehaviours : get_crypto_list(p1)
  \/ \E p1 \in ProviderBehaviours : get_exchange_info(p1)
  \/ \E sym \in PlainSyms, p1 \in ProviderBehaviours : get_crypto_klines(sym, p1)

SourceSpec == SourceInit /\ [][SourceNext]_vars

\* ------------------------------------------------------ symbol normalizer
\* Strings are sequences of characters, each a one-character string. A
\* character that no string of this module can hold, one above U+00FF or the
\* grave accent, is written as its code point: "U+3000", "U+0060".
\* Unicode 14.0.0, the version of the character database this Python has.
\* str.isspace(): the characters str.strip() removes
Whitespace ==
  {"\t", "\n", "", "\f", "\r", "", "", "", "", " ", "", " ", "U+1680", "U+2000",
   "U+2001", "U+2002", "U+2003", "U+2004", "U+2005", "U+2006", "U+2007", "U+2008", "U+2009",
   "U+200A", "U+2028", "U+2029", "U+202F", "U+205F", "U+3000"}

\* The decimal digits, which \d of a str pattern matches: the digits 0 to 9 of
\* one script after those of another, those of ASCII first.
DecimalDigits ==
  <<"0", "1", "2", "3", "4", "5", "6", "7", "8", "9", "U+0660", "U+0661", "U+0662", "U+0663",
    "U+0664", "U+0665", "U+0666", "U+0667", "U+0668", "U+0669", "U+06F0", "U+06F1", "U+06F2",
    "U+06F3", "U+06F4", "U+06F5", "U+06F6", "U+06F7", "U+06F8", "U+06F9", "U+07C0", "U+07C1",
    "U+07C2", "U+07C3", "U+07C4", "U+07C5", "U+07C6", "U+07C7", "U+07C8", "U+07C9", "U+0966",
    "U+0967", "U+0968", "U+0969", "U+096A", "U+096B", "U+096C", "U+096D", "U+096E", "U+096F",
    "U+09E6", "U+09E7", "U+09E8", "U+09E9", "U+09EA", "U+09EB", "U+09EC", "U+09ED", "U+09EE",
    "U+09EF", "U+0A66", "U+0A67", "U+0A68", "U+0A69", "U+0A6A", "U+0A6B", "U+0A6C", "U+0A6D",
    "U+0A6E", "U+0A6F", "U+0AE6", "U+0AE7", "U+0AE8", "U+0AE9", "U+0AEA", "U+0AEB", "U+0AEC",
    "U+0AED", "U+0AEE", "U+0AEF", "U+0B66", "U+0B67", "U+0B68", "U+0B69", "U+0B6A", "U+0B6B",
    "U+0B6C", "U+0B6D", "U+0B6E", "U+0B6F", "U+0BE6", "U+0BE7", "U+0BE8", "U+0BE9", "U+0BEA",
    "U+0BEB", "U+0BEC", "U+0BED", "U+0BEE", "U+0BEF", "U+0C66", "U+0C67", "U+0C68", "U+0C69",
    "U+0C6A", "U+0C6B", "U+0C6C", "U+0C6D", "U+0C6E", "U+0C6F", "U+0CE6", "U+0CE7", "U+0CE8",
    "U+0CE9", "U+0CEA", "U+0CEB", "U+0CEC", "U+0CED", "U+0CEE", "U+0CEF", "U+0D66", "U+0D67",
    "U+0D68", "U+0D69", "U+0D6A", "U+0D6B", "U+0D6C", "U+0D6D", "U+0D6E", "U+0D6F", "U+0DE6",
    "U+0DE7", "U+0DE8", "U+0DE9", "U+0DEA", "U+0DEB", "U+0DEC", "U+0DED", "U+0DEE", "U+0DEF",
    "U+0E50", "U+0E51", "U+0E52", "U+0E53", "U+0E54", "U+0E55", "U+0E56", "U+0E57", "U+0E58",
    "U+0E59", "U+0ED0", "U+0ED1", "U+0ED2", "U+0ED3", "U+0ED4", "U+0ED5", "U+0ED6", "U+0ED7",
    "U+0ED8", "U+0ED9", "U+0F20", "U+0F21", "U+0F22", "U+0F23", "U+0F24", "U+0F25", "U+0F26",
    "U+0F27", "U+0F28", "U+0F29", "U+1040", "U+1041", "U+1042", "U+1043", "U+1044", "U+1045",
    "U+1046", "U+1047", "U+1048", "U+1049", "U+1090", "U+1091", "U+1092", "U+1093", "U+1094",
    "U+1095", "U+1096", "U+1097", "U+1098", "U+1099", "U+17E0", "U+17E1", "U+17E2", "U+17E3",
    "U+17E4", "U+17E5", "U+17E6", "U+17E7", "U+17E8", "U+17E9", "U+1810", "U+1811", "U+1812",
    "U+1813", "U+1814", "U+1815", "U+1816", "U+1817", "U+1818", "U+1819", "U+1946", "U+1947",
    "U+1948", "U+1949", "U+194A", "U+194B", "U+194C", "U+194D", "U+194E", "U+194F", "U+19D0",
    "U+19D1", "U+19D2", "U+19D3", "U+19D4", "U+19D5", "U+19D6", "U+19D7", "U+19D8", "U+19D9",
    "U+1A80", "U+1A81", "U+1A82", "U+1A83", "U+1A84", "U+1A85", "U+1A86", "U+1A87", "U+1A88",
    "U+1A89", "U+1A90", "U+1A91", "U+1A92", "U+1A93", "U+1A94", "U+1A95", "U+1A96", "U+1A97",
    "U+1A98", "U+1A99", "U+1B50", "U+1B51", "U+1B52", "U+1B53", "U+1B54", "U+1B55", "U+1B56",
    "U+1B57", "U+1B58", "U+1B59", "U+1BB0", "U+1BB1", "U+1BB2", "U+1BB3", "U+1BB4", "U+1BB5",
    "U+1BB6", "U+1BB7", "U+1BB8", "U+1BB9", "U+1C40", "U+1C41", "U+1C42", "U+1C43", "U+1C44",
    "U+1C45", "U+1C46", "U+1C47", "U+1C48", "U+1C49", "U+1C50", "U+1C51", "U+1C52", "U+1C53",
    "U+1C54", "U+1C55", "U+1C56", "U+1C57", "U+1C58", "U+1C59", "U+A620", "U+A621", "U+A622",
    "U+A623", "U+A624", "U+A625", "U+A626", "U+A627", "U+A628", "U+A629", "U+A8D0", "U+A8D1",
    "U+A8D2", "U+A8D3", "U+A8D4", "U+A8D5", "U+A8D6", "U+A8D7", "U+A8D8", "U+A8D9", "U+A900",
    "U+A901", "U+A902", "U+A903", "U+A904", "U+A905", "U+A906", "U+A907", "U+A908", "U+A909",
    "U+A9D0", "U+A9D1", "U+A9D2", "U+A9D3", "U+A9D4", "U+A9D5", "U+A9D6", "U+A9D7", "U+A9D8",
    "U+A9D9", "U+A9F0", "U+A9F1", "U+A9F2", "U+A9F3", "U+A9F4", "U+A9F5", "U+A9F6", "U+A9F7",
    "U+A9F8", "U+A9F9", "U+AA50", "U+AA51", "U+AA52", "U+AA53", "U+AA54", "U+AA55", "U+AA56",
    "U+AA57", "U+AA58", "U+AA59", "U+ABF0", "U+ABF1", "U+ABF2", "U+ABF3", "U+ABF4", "U+ABF5",
    "U+ABF6", "U+ABF7", "U+ABF8", "U+ABF9", "U+FF10", "U+FF11", "U+FF12", "U+FF13", "U+FF14",
    "U+FF15", "U+FF16", "U+FF17", "U+FF18", "U+FF19", "U+104A0", "U+104A1", "U+104A2",
    "U+104A3", "U+104A4", "U+104A5", "U+104A6", "U+104A7", "U+104A8", "U+104A9", "U+10D30",
    "U+10D31", "U+10D32", "U+10D33", "U+10D34", "U+10D35", "U+10D36", "U+10D37", "U+10D38",
    "U+10D39", "U+11066", "U+11067", "U+11068", "U+11069", "U+1106A", "U+1106B", "U+1106C",
    "U+1106D", "U+1106E", "U+1106F", "U+110F0", "U+110F1", "U+110F2", "U+110F3", "U+110F4",
    "U+110F5", "U+110F6", "U+110F7", "U+110F8", "U+110F9", "U+11136", "U+11137", "U+11138",
    "U+11139", "U+1113A", "U+1113B", "U+1113C", "U+1113D", "U+1113E", "U+1113F", "U+111D0",
    "U+111D1", "U+111D2", "U+111D3", "U+111D4", "U+111D5", "U+111D6", "U+111D7", "U+111D8",
    "U+111D9", "U+112F0", "U+112F1", "U+112F2", "U+112F3", "U+112F4", "U+112F5", "U+112F6",
    "U+112F7", "U+112F8", "U+112F9", "U+11450", "U+11451", "U+11452", "U+11453", "U+11454",
    "U+11455", "U+11456", "U+11457", "U+11458", "U+11459", "U+114D0", "U+114D1", "U+114D2",
    "U+114D3", "U+114D4", "U+114D5", "U+114D6", "U+114D7", "U+114D8", "U+114D9", "U+11650",
    "U+11651", "U+11652", "U+11653", "U+11654", "U+11655", "U+11656", "U+11657", "U+11658",
    "U+11659", "U+116C0", "U+116C1", "U+116C2", "U+116C3", "U+116C4", "U+116C5", "U+116C6",
    "U+116C7", "U+116C8", "U+116C9", "U+11730", "U+11731", "U+11732", "U+11733", "U+11734",
    "U+11735", "U+11736", "U+11737", "U+11738", "U+11739", "U+118E0", "U+118E1", "U+118E2",
    "U+118E3", "U+118E4", "U+118E5", "U+118E6", "U+118E7", "U+118E8", "U+118E9", "U+11950",
    "U+11951", "U+11952", "U+11953", "U+11954", "U+11955", "U+11956", "U+11957", "U+11958",
    "U+11959", "U+11C50", "U+11C51", "U+11C52", "U+11C53", "U+11C54", "U+11C55", "U+11C56",
    "U+11C57", "U+11C58", "U+11C59", "U+11D50", "U+11D51", "U+11D52", "U+11D53", "U+11D54",
    "U+11D55", "U+11D56", "U+11D57", "U+11D58", "U+11D59", "U+11DA0", "U+11DA1", "U+11DA2",
    "U+11DA3", "U+11DA4", "U+11DA5", "U+11DA6", "U+11DA7", "U+11DA8", "U+11DA9", "U+16A60",
    "U+16A61", "U+16A62", "U+16A63", "U+16A64", "U+16A65", "U+16A66", "U+16A67", "U+16A68",
    "U+16A69", "U+16AC0", "U+16AC1", "U+16AC2", "U+16AC3", "U+16AC4", "U+16AC5", "U+16AC6",
    "U+16AC7", "U+16AC8", "U+16AC9", "U+16B50", "U+16B51", "U+16B52", "U+16B53", "U+16B54",
    "U+16B55", "U+16B56", "U+16B57", "U+16B58", "U+16B59", "U+1D7CE", "U+1D7CF", "U+1D7D0",
    "U+1D7D1", "U+1D7D2", "U+1D7D3", "U+1D7D4", "U+1D7D5", "U+1D7D6", "U+1D7D7", "U+1D7D8",
    "U+1D7D9", "U+1D7DA", "U+1D7DB", "U+1D7DC", "U+1D7DD", "U+1D7DE", "U+1D7DF", "U+1D7E0",
    "U+1D7E1", "U+1D7E2", "U+1D7E3", "U+1D7E4", "U+1D7E5", "U+1D7E6", "U+1D7E7", "U+1D7E8",
    "U+1D7E9", "U+1D7EA", "U+1D7EB", "U+1D7EC", "U+1D7ED", "U+1D7EE", "U+1D7EF", "U+1D7F0",
    "U+1D7F1", "U+1D7F2", "U+1D7F3", "U+1D7F4", "U+1D7F5", "U+1D7F6", "U+1D7F7", "U+1D7F8",
    "U+1D7F9", "U+1D7FA", "U+1D7FB", "U+1D7FC", "U+1D7FD", "U+1D7FE", "U+1D7FF", "U+1E140",
    "U+1E141", "U+1E142", "U+1E143", "U+1E144", "U+1E145", "U+1E146", "U+1E147", "U+1E148",
    "U+1E149", "U+1E2F0", "U+1E2F1", "U+1E2F2", "U+1E2F3", "U+1E2F4", "U+1E2F5", "U+1E2F6",
    "U+1E2F7", "U+1E2F8", "U+1E2F9", "U+1E950", "U+1E951", "U+1E952", "U+1E953", "U+1E954",
    "U+1E955", "U+1E956", "U+1E957", "U+1E958", "U+1E959", "U+1FBF0", "U+1FBF1", "U+1FBF2",
    "U+1FBF3", "U+1FBF4", "U+1FBF5", "U+1FBF6", "U+1FBF7", "U+1FBF8", "U+1FBF9">>

\* str.upper(): the characters it writes as one other character, with that
\* character at the same place of UpperValues, and the characters it writes as
\* several, with what it writes for each
UpperKeys ==
  <<"a", "b", "c", "d", "e", "f", "g", "h", "i", "j", "k", "l", "m", "n", "o", "p", "q", "r",
    "s", "t", "u", "v", "w", "x", "y", "z", "µ", "à", "á", "â", "ã", "ä", "å", "æ", "ç", "è",
    "é", "ê", "ë", "ì", "í", "î", "ï", "ð", "ñ", "ò", "ó", "ô", "õ", "ö", "ø", "ù", "ú", "û",
    "ü", "ý", "þ", "ÿ", "U+0101", "U+0103", "U+0105", "U+0107", "U+0109", "U+010B", "U+010D",
    "U+010F", "U+0111", "U+0113", "U+0115", "U+0117", "U+0119", "U+011B", "U+011D", "U+011F",
    "U+0121", "U+0123", "U+0125", "U+0127", "U+0129", "U+012B", "U+012D", "U+012F", "U+0131",
    "U+0133", "U+0135", "U+0137", "U+013A", "U+013C", "U+013E", "U+0140", "U+0142", "U+0144",
    "U+0146", "U+0148", "U+014B", "U+014D", "U+014F", "U+0151", "U+0153", "U+0155", "U+0157",
    "U+0159", "U+015B", "U+015D", "U+015F", "U+0161", "U+0163", "U+0165", "U+0167", "U+0169",
    "U+016B", "U+016D", "U+016F", "U+0171", "U+0173", "U+0175", "U+0177", "U+017A", "U+017C",
    "U+017E", "U+017F", "U+0180", "U+0183", "U+0185", "U+0188", "U+018C", "U+0192", "U+0195",
    "U+0199", "U+019A", "U+019E", "U+01A1", "U+01A3", "U+01A5", "U+01A8", "U+01AD", "U+01B0",
    "U+01B4", "U+01B6", "U+01B9", "U+01BD", "U+01BF", "U+01C5", "U+01C6", "U+01C8", "U+01C9",
    "U+01CB", "U+01CC", "U+01CE", "U+01D0", "U+01D2", "U+01D4", "U+01D6", "U+01D8", "U+01DA",
    "U+01DC", "U+01DD", "U+01DF", "U+01E1", "U+01E3", "U+01E5", "U+01E7", "U+01E9", "U+01EB",
    "U+01ED", "U+01EF", "U+01F2", "U+01F3", "U+01F5", "U+01F9", "U+01FB", "U+01FD", "U+01FF",
    "U+0201", "U+0203", "U+0205", "U+0207", "U+0209", "U+020B", "U+020D", "U+020F", "U+0211",
    "U+0213", "U+0215", "U+0217", "U+0219", "U+021B", "U+021D", "U+021F", "U+0223", "U+0225",
    "U+0227", "U+0229", "U+022B", "U+022D", "U+022F", "U+0231", "U+0233", "U+023C", "U+023F",
    "U+0240", "U+0242", "U+0247", "U+0249", "U+024B", "U+024D", "U+024F", "U+0250", "U+0251",
    "U+0252", "U+0253", "U+0254", "U+0256", "U+0257", "U+0259", "U+025B", "U+025C", "U+0260",
    "U+0261", "U+0263", "U+0265", "U+0266", "U+0268", "U+0269", "U+026A", "U+026B", "U+026C",
    "U+026F", "U+0271", "U+0272", "U+0275", "U+027D", "U+0280", "U+0282", "U+0283", "U+0287",
    "U+0288", "U+0289", "U+028A", "U+028B", "U+028C", "U+0292", "U+029D", "U+029E", "U+0345",
    "U+0371", "U+0373", "U+0377", "U+037B", "U+037C", "U+037D", "U+03AC", "U+03AD", "U+03AE",
    "U+03AF", "U+03B1", "U+03B2", "U+03B3", "U+03B4", "U+03B5", "U+03B6", "U+03B7", "U+03B8",
    "U+03B9", "U+03BA", "U+03BB", "U+03BC", "U+03BD", "U+03BE", "U+03BF", "U+03C0", "U+03C1",
    "U+03C2", "U+03C3", "U+03C4", "U+03C5", "U+03C6", "U+03C7", "U+03C8", "U+03C9", "U+03CA",
    "U+03CB", "U+03CC", "U+03CD", "U+03CE", "U+03D0", "U+03D1", "U+03D5", "U+03D6", "U+03D7",
    "U+03D9", "U+03DB", "U+03DD", "U+03DF", "U+03E1", "U+03E3", "U+03E5", "U+03E7", "U+03E9",
    "U+03EB", "U+03ED", "U+03EF", "U+03F0", "U+03F1", "U+03F2", "U+03F3", "U+03F5", "U+03F8",
    "U+03FB", "U+0430", "U+0431", "U+0432", "U+0433", "U+0434", "U+0435", "U+0436", "U+0437",
    "U+0438", "U+0439", "U+043A", "U+043B", "U+043C", "U+043D", "U+043E", "U+043F", "U+0440",
    "U+0441", "U+0442", "U+0443", "U+0444", "U+0445", "U+0446", "U+0447", "U+0448", "U+0449",
    "U+044A", "U+044B", "U+044C", "U+044D", "U+044E", "U+044F", "U+0450", "U+0451", "U+0452",
    "U+0453", "U+0454", "U+0455", "U+0456", "U+0457", "U+0458", "U+0459", "U+045A", "U+045B",
    "U+045C", "U+045D", "U+045E", "U+045F", "U+0461", "U+0463", "U+0465", "U+0467", "U+0469",
    "U+046B", "U+046D", "U+046F", "U+0471", "U+0473", "U+0475", "U+0477", "U+0479", "U+047B",
    "U+047D", "U+047F", "U+0481", "U+048B", "U+048D", "U+048F", "U+0491", "U+0493", "U+0495",
    "U+0497", "U+0499", "U+049B", "U+049D", "U+049F", "U+04A1", "U+04A3", "U+04A5", "U+04A7",
    "U+04A9", "U+04AB", "U+04AD", "U+04AF", "U+04B1", "U+04B3", "U+04B5", "U+04B7", "U+04B9",
    "U+04BB", "U+04BD", "U+04BF", "U+04C2", "U+04C4", "U+04C6", "U+04C8", "U+04CA", "U+04CC",
    "U+04CE", "U+04CF", "U+04D1", "U+04D3", "U+04D5", "U+04D7", "U+04D9", "U+04DB", "U+04DD",
    "U+04DF", "U+04E1", "U+04E3", "U+04E5", "U+04E7", "U+04E9", "U+04EB", "U+04ED", "U+04EF",
    "U+04F1", "U+04F3", "U+04F5", "U+04F7", "U+04F9", "U+04FB", "U+04FD", "U+04FF", "U+0501",
    "U+0503", "U+0505", "U+0507", "U+0509", "U+050B", "U+050D", "U+050F", "U+0511", "U+0513",
    "U+0515", "U+0517", "U+0519", "U+051B", "U+051D", "U+051F", "U+0521", "U+0523", "U+0525",
    "U+0527", "U+0529", "U+052B", "U+052D", "U+052F", "U+0561", "U+0562", "U+0563", "U+0564",
    "U+0565", "U+0566", "U+0567", "U+0568", "U+0569", "U+056A", "U+056B", "U+056C", "U+056D",
    "U+056E", "U+056F", "U+0570", "U+0571", "U+0572", "U+0573", "U+0574", "U+0575", "U+0576",
    "U+0577", "U+0578", "U+0579", "U+057A", "U+057B", "U+057C", "U+057D", "U+057E", "U+057F",
    "U+0580", "U+0581", "U+0582", "U+0583", "U+0584", "U+0585", "U+0586", "U+10D0", "U+10D1",
    "U+10D2", "U+10D3", "U+10D4", "U+10D5", "U+10D6", "U+10D7", "U+10D8", "U+10D9", "U+10DA",
    "U+10DB", "U+10DC", "U+10DD", "U+10DE", "U+10DF", "U+10E0", "U+10E1", "U+10E2", "U+10E3",
    "U+10E4", "U+10E5", "U+10E6", "U+10E7", "U+10E8", "U+10E9", "U+10EA", "U+10EB", "U+10EC",
    "U+10ED", "U+10EE", "U+10EF", "U+10F0", "U+10F1", "U+10F2", "U+10F3", "U+10F4", "U+10F5",
    "U+10F6", "U+10F7", "U+10F8", "U+10F9", "U+10FA", "U+10FD", "U+10FE", "U+10FF", "U+13F8",
    "U+13F9", "U+13FA", "U+13FB", "U+13FC", "U+13FD", "U+1C80", "U+1C81", "U+1C82", "U+1C83",
    "U+1C84", "U+1C85", "U+1C86", "U+1C87", "U+1C88", "U+1D79", "U+1D7D", "U+1D8E", "U+1E01",
    "U+1E03", "U+1E05", "U+1E07", "U+1E09", "U+1E0B", "U+1E0D", "U+1E0F", "U+1E11", "U+1E13",
    "U+1E15", "U+1E17", "U+1E19", "U+1E1B", "U+1E1D", "U+1E1F", "U+1E21", "U+1E23", "U+1E25",
    "U+1E27", "U+1E29", "U+1E2B", "U+1E2D", "U+1E2F", "U+1E31", "U+1E33", "U+1E35", "U+1E37",
    "U+1E39", "U+1E3B", "U+1E3D", "U+1E3F", "U+1E41", "U+1E43", "U+1E45", "U+1E47", "U+1E49",
    "U+1E4B", "U+1E4D", "U+1E4F", "U+1E51", "U+1E53", "U+1E55", "U+1E57", "U+1E59", "U+1E5B",
    "U+1E5D", "U+1E5F", "U+1E61", "U+1E63", "U+1E65", "U+1E67", "U+1E69", "U+1E6B", "U+1E6D",
    "U+1E6F", "U+1E71", "U+1E73", "U+1E75", "U+1E77", "U+1E79", "U+1E7B", "U+1E7D", "U+1E7F",
    "U+1E81", "U+1E83", "U+1E85", "U+1E87", "U+1E89", "U+1E8B", "U+1E8D", "U+1E8F", "U+1E91",
    "U+1E93", "U+1E95", "U+1E9B", "U+1EA1", "U+1EA3", "U+1EA5", "U+1EA7", "U+1EA9", "U+1EAB",
    "U+1EAD", "U+1EAF", "U+1EB1", "U+1EB3", "U+1EB5", "U+1EB7", "U+1EB9", "U+1EBB", "U+1EBD",
    "U+1EBF", "U+1EC1", "U+1EC3", "U+1EC5", "U+1EC7", "U+1EC9", "U+1ECB", "U+1ECD", "U+1ECF",
    "U+1ED1", "U+1ED3", "U+1ED5", "U+1ED7", "U+1ED9", "U+1EDB", "U+1EDD", "U+1EDF", "U+1EE1",
    "U+1EE3", "U+1EE5", "U+1EE7", "U+1EE9", "U+1EEB", "U+1EED", "U+1EEF", "U+1EF1", "U+1EF3",
    "U+1EF5", "U+1EF7", "U+1EF9", "U+1EFB", "U+1EFD", "U+1EFF", "U+1F00", "U+1F01", "U+1F02",
    "U+1F03", "U+1F04", "U+1F05", "U+1F06", "U+1F07", "U+1F10", "U+1F11", "U+1F12", "U+1F13",
    "U+1F14", "U+1F15", "U+1F20", "U+1F21", "U+1F22", "U+1F23", "U+1F24", "U+1F25", "U+1F26",
    "U+1F27", "U+1F30", "U+1F31", "U+1F32", "U+1F33", "U+1F34", "U+1F35", "U+1F36", "U+1F37",
    "U+1F40", "U+1F41", "U+1F42", "U+1F43", "U+1F44", "U+1F45", "U+1F51", "U+1F53", "U+1F55",
    "U+1F57", "U+1F60", "U+1F61", "U+1F62", "U+1F63", "U+1F64", "U+1F65", "U+1F66", "U+1F67",
    "U+1F70", "U+1F71", "U+1F72", "U+1F73", "U+1F74", "U+1F75", "U+1F76", "U+1F77", "U+1F78",
    "U+1F79", "U+1F7A", "U+1F7B", "U+1F7C", "U+1F7D", "U+1FB0", "U+1FB1", "U+1FBE", "U+1FD0",
    "U+1FD1", "U+1FE0", "U+1FE1", "U+1FE5", "U+214E", "U+2170", "U+2171", "U+2172", "U+2173",
    "U+2174", "U+2175", "U+2176", "U+2177", "U+2178", "U+2179", "U+217A", "U+217B", "U+217C",
    "U+217D", "U+217E", "U+217F", "U+2184", "U+24D0", "U+24D1", "U+24D2", "U+24D3", "U+24D4",
    "U+24D5", "U+24D6", "U+24D7", "U+24D8", "U+24D9", "U+24DA", "U+24DB", "U+24DC", "U+24DD",
    "U+24DE", "U+24DF", "U+24E0", "U+24E1", "U+24E2", "U+24E3", "U+24E4", "U+24E5", "U+24E6",
    "U+24E7", "U+24E8", "U+24E9", "U+2C30", "U+2C31", "U+2C32", "U+2C33", "U+2C34", "U+2C35",
    "U+2C36", "U+2C37", "U+2C38", "U+2C39", "U+2C3A", "U+2C3B", "U+2C3C", "U+2C3D", "U+2C3E",
    "U+2C3F", "U+2C40", "U+2C41", "U+2C42", "U+2C43", "U+2C44", "U+2C45", "U+2C46", "U+2C47",
    "U+2C48", "U+2C49", "U+2C4A", "U+2C4B", "U+2C4C", "U+2C4D", "U+2C4E", "U+2C4F", "U+2C50",
    "U+2C51", "U+2C52", "U+2C53", "U+2C54", "U+2C55", "U+2C56", "U+2C57", "U+2C58", "U+2C59",
    "U+2C5A", "U+2C5B", "U+2C5C", "U+2C5D", "U+2C5E", "U+2C5F", "U+2C61", "U+2C65", "U+2C66",
    "U+2C68", "U+2C6A", "U+2C6C", "U+2C73", "U+2C76", "U+2C81", "U+2C83", "U+2C85", "U+2C87",
    "U+2C89", "U+2C8B", "U+2C8D", "U+2C8F", "U+2C91", "U+2C93", "U+2C95", "U+2C97", "U+2C99",
    "U+2C9B", "U+2C9D", "U+2C9F", "U+2CA1", "U+2CA3", "U+2CA5", "U+2CA7", "U+2CA9", "U+2CAB",
    "U+2CAD", "U+2CAF", "U+2CB1", "U+2CB3", "U+2CB5", "U+2CB7", "U+2CB9", "U+2CBB", "U+2CBD",
    "U+2CBF", "U+2CC1", "U+2CC3", "U+2CC5", "U+2CC7", "U+2CC9", "U+2CCB", "U+2CCD", "U+2CCF",
    "U+2CD1", "U+2CD3", "U+2CD5", "U+2CD7", "U+2CD9", "U+2CDB", "U+2CDD", "U+2CDF", "U+2CE1",
    "U+2CE3", "U+2CEC", "U+2CEE", "U+2CF3", "U+2D00", "U+2D01", "U+2D02", "U+2D03", "U+2D04",
    "U+2D05", "U+2D06", "U+2D07", "U+2D08", "U+2D09", "U+2D0A", "U+2D0B", "U+2D0C", "U+2D0D",
    "U+2D0E", "U+2D0F", "U+2D10", "U+2D11", "U+2D12", "U+2D13", "U+2D14", "U+2D15", "U+2D16",
    "U+2D17", "U+2D18", "U+2D19", "U+2D1A", "U+2D1B", "U+2D1C", "U+2D1D", "U+2D1E", "U+2D1F",
    "U+2D20", "U+2D21", "U+2D22", "U+2D23", "U+2D24", "U+2D25", "U+2D27", "U+2D2D", "U+A641",
    "U+A643", "U+A645", "U+A647", "U+A649", "U+A64B", "U+A64D", "U+A64F", "U+A651", "U+A653",
    "U+A655", "U+A657", "U+A659", "U+A65B", "U+A65D", "U+A65F", "U+A661", "U+A663", "U+A665",
    "U+A667", "U+A669", "U+A66B", "U+A66D", "U+A681", "U+A683", "U+A685", "U+A687", "U+A689",
    "U+A68B", "U+A68D", "U+A68F", "U+A691", "U+A693", "U+A695", "U+A697", "U+A699", "U+A69B",
    "U+A723", "U+A725", "U+A727", "U+A729", "U+A72B", "U+A72D", "U+A72F", "U+A733", "U+A735",
    "U+A737", "U+A739", "U+A73B", "U+A73D", "U+A73F", "U+A741", "U+A743", "U+A745", "U+A747",
    "U+A749", "U+A74B", "U+A74D", "U+A74F", "U+A751", "U+A753", "U+A755", "U+A757", "U+A759",
    "U+A75B", "U+A75D", "U+A75F", "U+A761", "U+A763", "U+A765", "U+A767", "U+A769", "U+A76B",
    "U+A76D", "U+A76F", "U+A77A", "U+A77C", "U+A77F", "U+A781", "U+A783", "U+A785", "U+A787",
    "U+A78C", "U+A791", "U+A793", "U+A794", "U+A797", "U+A799", "U+A79B", "U+A79D", "U+A79F",
    "U+A7A1", "U+A7A3", "U+A7A5", "U+A7A7", "U+A7A9", "U+A7B5", "U+A7B7", "U+A7B9", "U+A7BB",
    "U+A7BD", "U+A7BF", "U+A7C1", "U+A7C3", "U+A7C8", "U+A7CA", "U+A7D1", "U+A7D7", "U+A7D9",
    "U+A7F6", "U+AB53", "U+AB70", "U+AB71", "U+AB72", "U+AB73", "U+AB74", "U+AB75", "U+AB76",
    "U+AB77", "U+AB78", "U+AB79", "U+AB7A", "U+AB7B", "U+AB7C", "U+AB7D", "U+AB7E", "U+AB7F",
    "U+AB80", "U+AB81", "U+AB82", "U+AB83", "U+AB84", "U+AB85", "U+AB86", "U+AB87", "U+AB88",
    "U+AB89", "U+AB8A", "U+AB8B", "U+AB8C", "U+AB8D", "U+AB8E", "U+AB8F", "U+AB90", "U+AB91",
    "U+AB92", "U+AB93", "U+AB94", "U+AB95", "U+AB96", "U+AB97", "U+AB98", "U+AB99", "U+AB9A",
    "U+AB9B", "U+AB9C", "U+AB9D", "U+AB9E", "U+AB9F", "U+ABA0", "U+ABA1", "U+ABA2", "U+ABA3",
    "U+ABA4", "U+ABA5", "U+ABA6", "U+ABA7", "U+ABA8", "U+ABA9", "U+ABAA", "U+ABAB", "U+ABAC",
    "U+ABAD", "U+ABAE", "U+ABAF", "U+ABB0", "U+ABB1", "U+ABB2", "U+ABB3", "U+ABB4", "U+ABB5",
    "U+ABB6", "U+ABB7", "U+ABB8", "U+ABB9", "U+ABBA", "U+ABBB", "U+ABBC", "U+ABBD", "U+ABBE",
    "U+ABBF", "U+FF41", "U+FF42", "U+FF43", "U+FF44", "U+FF45", "U+FF46", "U+FF47", "U+FF48",
    "U+FF49", "U+FF4A", "U+FF4B", "U+FF4C", "U+FF4D", "U+FF4E", "U+FF4F", "U+FF50", "U+FF51",
    "U+FF52", "U+FF53", "U+FF54", "U+FF55", "U+FF56", "U+FF57", "U+FF58", "U+FF59", "U+FF5A",
    "U+10428", "U+10429", "U+1042A", "U+1042B", "U+1042C", "U+1042D", "U+1042E", "U+1042F",
    "U+10430", "U+10431", "U+10432", "U+10433", "U+10434", "U+10435", "U+10436", "U+10437",
    "U+10438", "U+10439", "U+1043A", "U+1043B", "U+1043C", "U+1043D", "U+1043E", "U+1043F",
    "U+10440", "U+10441", "U+10442", "U+10443", "U+10444", "U+10445", "U+10446", "U+10447",
    "U+10448", "U+10449", "U+1044A", "U+1044B", "U+1044C", "U+1044D", "U+1044E", "U+1044F",
    "U+104D8", "U+104D9", "U+104DA", "U+104DB", "U+104DC", "U+104DD", "U+104DE", "U+104DF",
    "U+104E0", "U+104E1", "U+104E2", "U+104E3", "U+104E4", "U+104E5", "U+104E6", "U+104E7",
    "U+104E8", "U+104E9", "U+104EA", "U+104EB", "U+104EC", "U+104ED", "U+104EE", "U+104EF",
    "U+104F0", "U+104F1", "U+104F2", "U+104F3", "U+104F4", "U+104F5", "U+104F6", "U+104F7",
    "U+104F8", "U+104F9", "U+104FA", "U+104FB", "U+10597", "U+10598", "U+10599", "U+1059A",
    "U+1059B", "U+1059C", "U+1059D", "U+1059E", "U+1059F", "U+105A0", "U+105A1", "U+105A3",
    "U+105A4", "U+105A5", "U+105A6", "U+105A7", "U+105A8", "U+105A9", "U+105AA", "U+105AB",
    "U+105AC", "U+105AD", "U+105AE", "U+105AF", "U+105B0", "U+105B1", "U+105B3", "U+105B4",
    "U+105B5", "U+105B6", "U+105B7", "U+105B8", "U+105B9", "U+105BB", "U+105BC", "U+10CC0",
    "U+10CC1", "U+10CC2", "U+10CC3", "U+10CC4", "U+10CC5", "U+10CC6", "U+10CC7", "U+10CC8",
    "U+10CC9", "U+10CCA", "U+10CCB", "U+10CCC", "U+10CCD", "U+10CCE", "U+10CCF", "U+10CD0",
    "U+10CD1", "U+10CD2", "U+10CD3", "U+10CD4", "U+10CD5", "U+10CD6", "U+10CD7", "U+10CD8",
    "U+10CD9", "U+10CDA", "U+10CDB", "U+10CDC", "U+10CDD", "U+10CDE", "U+10CDF", "U+10CE0",
    "U+10CE1", "U+10CE2", "U+10CE3", "U+10CE4", "U+10CE5", "U+10CE6", "U+10CE7", "U+10CE8",
    "U+10CE9", "U+10CEA", "U+10CEB", "U+10CEC", "U+10CED", "U+10CEE", "U+10CEF", "U+10CF0",
    "U+10CF1", "U+10CF2", "U+118C0", "U+118C1", "U+118C2", "U+118C3", "U+118C4", "U+118C5",
    "U+118C6", "U+118C7", "U+118C8", "U+118C9", "U+118CA", "U+118CB", "U+118CC", "U+118CD",
    "U+118CE", "U+118CF", "U+118D0", "U+118D1", "U+118D2", "U+118D3", "U+118D4", "U+118D5",
    "U+118D6", "U+118D7", "U+118D8", "U+118D9", "U+118DA", "U+118DB", "U+118DC", "U+118DD",
    "U+118DE", "U+118DF", "U+16E60", "U+16E61", "U+16E62", "U+16E63", "U+16E64", "U+16E65",
    "U+16E66", "U+16E67", "U+16E68", "U+16E69", "U+16E6A", "U+16E6B", "U+16E6C", "U+16E6D",
    "U+16E6E", "U+16E6F", "U+16E70", "U+16E71", "U+16E72", "U+16E73", "U+16E74", "U+16E75",
    "U+16E76", "U+16E77", "U+16E78", "U+16E79", "U+16E7A", "U+16E7B", "U+16E7C", "U+16E7D",
    "U+16E7E", "U+16E7F", "U+1E922", "U+1E923", "U+1E924", "U+1E925", "U+1E926", "U+1E927",
    "U+1E928", "U+1E929", "U+1E92A", "U+1E92B", "U+1E92C", "U+1E92D", "U+1E92E", "U+1E92F",
    "U+1E930", "U+1E931", "U+1E932", "U+1E933", "U+1E934", "U+1E935", "U+1E936", "U+1E937",
    "U+1E938", "U+1E939", "U+1E93A", "U+1E93B", "U+1E93C", "U+1E93D", "U+1E93E", "U+1E93F",
    "U+1E940", "U+1E941", "U+1E942", "U+1E943">>
UpperValues ==
  <<"A", "B", "C", "D", "E", "F", "G", "H", "I", "J", "K", "L", "M", "N", "O", "P", "Q", "R",
    "S", "T", "U", "V", "W", "X", "Y", "Z", "U+039C", "À", "Á", "Â", "Ã", "Ä", "Å", "Æ", "Ç",
    "È", "É", "Ê", "Ë", "Ì", "Í", "Î", "Ï", "Ð", "Ñ", "Ò", "Ó", "Ô", "Õ", "Ö", "Ø", "Ù", "Ú",
    "Û", "Ü", "Ý", "Þ", "U+0178", "U+0100", "U+0102", "U+0104", "U+0106", "U+0108", "U+010A",
    "U+010C", "U+010E", "U+0110", "U+0112", "U+0114", "U+0116", "U+0118", "U+011A", "U+011C",
    "U+011E", "U+0120", "U+0122", "U+0124", "U+0126", "U+0128", "U+012A", "U+012C", "U+012E",
    "I", "U+0132", "U+0134", "U+0136", "U+0139", "U+013B", "U+013D", "U+013F", "U+0141",
    "U+0143", "U+0145", "U+0147", "U+014A", "U+014C", "U+014E", "U+0150", "U+0152", "U+0154",
    "U+0156", "U+0158", "U+015A", "U+015C", "U+015E", "U+0160", "U+0162", "U+0164", "U+0166",
    "U+0168", "U+016A", "U+016C", "U+016E", "U+0170", "U+0172", "U+0174", "U+0176", "U+0179",
    "U+017B", "U+017D", "S", "U+0243", "U+0182", "U+0184", "U+0187", "U+018B", "U+0191",
    "U+01F6", "U+0198", "U+023D", "U+0220", "U+01A0", "U+01A2", "U+01A4", "U+01A7", "U+01AC",
    "U+01AF", "U+01B3", "U+01B5", "U+01B8", "U+01BC", "U+01F7", "U+01C4", "U+01C4", "U+01C7",
    "U+01C7", "U+01CA", "U+01CA", "U+01CD", "U+01CF", "U+01D1", "U+01D3", "U+01D5", "U+01D7",
    "U+01D9", "U+01DB", "U+018E", "U+01DE", "U+01E0", "U+01E2", "U+01E4", "U+01E6", "U+01E8",
    "U+01EA", "U+01EC", "U+01EE", "U+01F1", "U+01F1", "U+01F4", "U+01F8", "U+01FA", "U+01FC",
    "U+01FE", "U+0200", "U+0202", "U+0204", "U+0206", "U+0208", "U+020A", "U+020C", "U+020E",
    "U+0210", "U+0212", "U+0214", "U+0216", "U+0218", "U+021A", "U+021C", "U+021E", "U+0222",
    "U+0224", "U+0226", "U+0228", "U+022A", "U+022C", "U+022E", "U+0230", "U+0232", "U+023B",
    "U+2C7E", "U+2C7F", "U+0241", "U+0246", "U+0248", "U+024A", "U+024C", "U+024E", "U+2C6F",
    "U+2C6D", "U+2C70", "U+0181", "U+0186", "U+0189", "U+018A", "U+018F", "U+0190", "U+A7AB",
    "U+0193", "U+A7AC", "U+0194", "U+A78D", "U+A7AA", "U+0197", "U+0196", "U+A7AE", "U+2C62",
    "U+A7AD", "U+019C", "U+2C6E", "U+019D", "U+019F", "U+2C64", "U+01A6", "U+A7C5", "U+01A9",
    "U+A7B1", "U+01AE", "U+0244", "U+01B1", "U+01B2", "U+0245", "U+01B7", "U+A7B2", "U+A7B0",
    "U+0399", "U+0370", "U+0372", "U+0376", "U+03FD", "U+03FE", "U+03FF", "U+0386", "U+0388",
    "U+0389", "U+038A", "U+0391", "U+0392", "U+0393", "U+0394", "U+0395", "U+0396", "U+0397",
    "U+0398", "U+0399", "U+039A", "U+039B", "U+039C", "U+039D", "U+039E", "U+039F", "U+03A0",
    "U+03A1", "U+03A3", "U+03A3", "U+03A4", "U+03A5", "U+03A6", "U+03A7", "U+03A8", "U+03A9",
    "U+03AA", "U+03AB", "U+038C", "U+038E", "U+038F", "U+0392", "U+0398", "U+03A6", "U+03A0",
    "U+03CF", "U+03D8", "U+03DA", "U+03DC", "U+03DE", "U+03E0", "U+03E2", "U+03E4", "U+03E6",
    "U+03E8", "U+03EA", "U+03EC", "U+03EE", "U+039A", "U+03A1", "U+03F9", "U+037F", "U+0395",
    "U+03F7", "U+03FA", "U+0410", "U+0411", "U+0412", "U+0413", "U+0414", "U+0415", "U+0416",
    "U+0417", "U+0418", "U+0419", "U+041A", "U+041B", "U+041C", "U+041D", "U+041E", "U+041F",
    "U+0420", "U+0421", "U+0422", "U+0423", "U+0424", "U+0425", "U+0426", "U+0427", "U+0428",
    "U+0429", "U+042A", "U+042B", "U+042C", "U+042D", "U+042E", "U+042F", "U+0400", "U+0401",
    "U+0402", "U+0403", "U+0404", "U+0405", "U+0406", "U+0407", "U+0408", "U+0409", "U+040A",
    "U+040B", "U+040C", "U+040D", "U+040E", "U+040F", "U+0460", "U+0462", "U+0464", "U+0466",
    "U+0468", "U+046A", "U+046C", "U+046E", "U+0470", "U+0472", "U+0474", "U+0476", "U+0478",
    "U+047A", "U+047C", "U+047E", "U+0480", "U+048A", "U+048C", "U+048E", "U+0490", "U+0492",
    "U+0494", "U+0496", "U+0498", "U+049A", "U+049C", "U+049E", "U+04A0", "U+04A2", "U+04A4",
    "U+04A6", "U+04A8", "U+04AA", "U+04AC", "U+04AE", "U+04B0", "U+04B2", "U+04B4", "U+04B6",
    "U+04B8", "U+04BA", "U+04BC", "U+04BE", "U+04C1", "U+04C3", "U+04C5", "U+04C7", "U+04C9",
    "U+04CB", "U+04CD", "U+04C0", "U+04D0", "U+04D2", "U+04D4", "U+04D6", "U+04D8", "U+04DA",
    "U+04DC", "U+04DE", "U+04E0", "U+04E2", "U+04E4", "U+04E6", "U+04E8", "U+04EA", "U+04EC",
    "U+04EE", "U+04F0", "U+04F2", "U+04F4", "U+04F6", "U+04F8", "U+04FA", "U+04FC", "U+04FE",
    "U+0500", "U+0502", "U+0504", "U+0506", "U+0508", "U+050A", "U+050C", "U+050E", "U+0510",
    "U+0512", "U+0514", "U+0516", "U+0518", "U+051A", "U+051C", "U+051E", "U+0520", "U+0522",
    "U+0524", "U+0526", "U+0528", "U+052A", "U+052C", "U+052E", "U+0531", "U+0532", "U+0533",
    "U+0534", "U+0535", "U+0536", "U+0537", "U+0538", "U+0539", "U+053A", "U+053B", "U+053C",
    "U+053D", "U+053E", "U+053F", "U+0540", "U+0541", "U+0542", "U+0543", "U+0544", "U+0545",
    "U+0546", "U+0547", "U+0548", "U+0549", "U+054A", "U+054B", "U+054C", "U+054D", "U+054E",
    "U+054F", "U+0550", "U+0551", "U+0552", "U+0553", "U+0554", "U+0555", "U+0556", "U+1C90",
    "U+1C91", "U+1C92", "U+1C93", "U+1C94", "U+1C95", "U+1C96", "U+1C97", "U+1C98", "U+1C99",
    "U+1C9A", "U+1C9B", "U+1C9C", "U+1C9D", "U+1C9E", "U+1C9F", "U+1CA0", "U+1CA1", "U+1CA2",
    "U+1CA3", "U+1CA4", "U+1CA5", "U+1CA6", "U+1CA7", "U+1CA8", "U+1CA9", "U+1CAA", "U+1CAB",
    "U+1CAC", "U+1CAD", "U+1CAE", "U+1CAF", "U+1CB0", "U+1CB1", "U+1CB2", "U+1CB3", "U+1CB4",
    "U+1CB5", "U+1CB6", "U+1CB7", "U+1CB8", "U+1CB9", "U+1CBA", "U+1CBD", "U+1CBE", "U+1CBF",
    "U+13F0", "U+13F1", "U+13F2", "U+13F3", "U+13F4", "U+13F5", "U+0412", "U+0414", "U+041E",
    "U+0421", "U+0422", "U+0422", "U+042A", "U+0462", "U+A64A", "U+A77D", "U+2C63", "U+A7C6",
    "U+1E00", "U+1E02", "U+1E04", "U+1E06", "U+1E08", "U+1E0A", "U+1E0C", "U+1E0E", "U+1E10",
    "U+1E12", "U+1E14", "U+1E16", "U+1E18", "U+1E1A", "U+1E1C", "U+1E1E", "U+1E20", "U+1E22",
    "U+1E24", "U+1E26", "U+1E28", "U+1E2A", "U+1E2C", "U+1E2E", "U+1E30", "U+1E32", "U+1E34",
    "U+1E36", "U+1E38", "U+1E3A", "U+1E3C", "U+1E3E", "U+1E40", "U+1E42", "U+1E44", "U+1E46",
    "U+1E48", "U+1E4A", "U+1E4C", "U+1E4E", "U+1E50", "U+1E52", "U+1E54", "U+1E56", "U+1E58",
    "U+1E5A", "U+1E5C", "U+1E5E", "U+1E60", "U+1E62", "U+1E64", "U+1E66", "U+1E68", "U+1E6A",
    "U+1E6C", "U+1E6E", "U+1E70", "U+1E72", "U+1E74", "U+1E76", "U+1E78", "U+1E7A", "U+1E7C",
    "U+1E7E", "U+1E80", "U+1E82", "U+1E84", "U+1E86", "U+1E88", "U+1E8A", "U+1E8C", "U+1E8E",
    "U+1E90", "U+1E92", "U+1E94", "U+1E60", "U+1EA0", "U+1EA2", "U+1EA4", "U+1EA6", "U+1EA8",
    "U+1EAA", "U+1EAC", "U+1EAE", "U+1EB0", "U+1EB2", "U+1EB4", "U+1EB6", "U+1EB8", "U+1EBA",
    "U+1EBC", "U+1EBE", "U+1EC0", "U+1EC2", "U+1EC4", "U+1EC6", "U+1EC8", "U+1ECA", "U+1ECC",
    "U+1ECE", "U+1ED0", "U+1ED2", "U+1ED4", "U+1ED6", "U+1ED8", "U+1EDA", "U+1EDC", "U+1EDE",
    "U+1EE0", "U+1EE2", "U+1EE4", "U+1EE6", "U+1EE8", "U+1EEA", "U+1EEC", "U+1EEE", "U+1EF0",
    "U+1EF2", "U+1EF4", "U+1EF6", "U+1EF8", "U+1EFA", "U+1EFC", "U+1EFE", "U+1F08", "U+1F09",
    "U+1F0A", "U+1F0B", "U+1F0C", "U+1F0D", "U+1F0E", "U+1F0F", "U+1F18", "U+1F19", "U+1F1A",
    "U+1F1B", "U+1F1C", "U+1F1D", "U+1F28", "U+1F29", "U+1F2A", "U+1F2B", "U+1F2C", "U+1F2D",
    "U+1F2E", "U+1F2F", "U+1F38", "U+1F39", "U+1F3A", "U+1F3B", "U+1F3C", "U+1F3D", "U+1F3E",
    "U+1F3F", "U+1F48", "U+1F49", "U+1F4A", "U+1F4B", "U+1F4C", "U+1F4D", "U+1F59", "U+1F5B",
    "U+1F5D", "U+1F5F", "U+1F68", "U+1F69", "U+1F6A", "U+1F6B", "U+1F6C", "U+1F6D", "U+1F6E",
    "U+1F6F", "U+1FBA", "U+1FBB", "U+1FC8", "U+1FC9", "U+1FCA", "U+1FCB", "U+1FDA", "U+1FDB",
    "U+1FF8", "U+1FF9", "U+1FEA", "U+1FEB", "U+1FFA", "U+1FFB", "U+1FB8", "U+1FB9", "U+0399",
    "U+1FD8", "U+1FD9", "U+1FE8", "U+1FE9", "U+1FEC", "U+2132", "U+2160", "U+2161", "U+2162",
    "U+2163", "U+2164", "U+2165", "U+2166", "U+2167", "U+2168", "U+2169", "U+216A", "U+216B",
    "U+216C", "U+216D", "U+216E", "U+216F", "U+2183", "U+24B6", "U+24B7", "U+24B8", "U+24B9",
    "U+24BA", "U+24BB", "U+24BC", "U+24BD", "U+24BE", "U+24BF", "U+24C0", "U+24C1", "U+24C2",
    "U+24C3", "U+24C4", "U+24C5", "U+24C6", "U+24C7", "U+24C8", "U+24C9", "U+24CA", "U+24CB",
    "U+24CC", "U+24CD", "U+24CE", "U+24CF", "U+2C00", "U+2C01", "U+2C02", "U+2C03", "U+2C04",
    "U+2C05", "U+2C06", "U+2C07", "U+2C08", "U+2C09", "U+2C0A", "U+2C0B", "U+2C0C", "U+2C0D",
    "U+2C0E", "U+2C0F", "U+2C10", "U+2C11", "U+2C12", "U+2C13", "U+2C14", "U+2C15", "U+2C16",
    "U+2C17", "U+2C18", "U+2C19", "U+2C1A", "U+2C1B", "U+2C1C", "U+2C1D", "U+2C1E", "U+2C1F",
    "U+2C20", "U+2C21", "U+2C22", "U+2C23", "U+2C24", "U+2C25", "U+2C26", "U+2C27", "U+2C28",
    "U+2C29", "U+2C2A", "U+2C2B", "U+2C2C", "U+2C2D", "U+2C2E", "U+2C2F", "U+2C60", "U+023A",
    "U+023E", "U+2C67", "U+2C69", "U+2C6B", "U+2C72", "U+2C75", "U+2C80", "U+2C82", "U+2C84",
    "U+2C86", "U+2C88", "U+2C8A", "U+2C8C", "U+2C8E", "U+2C90", "U+2C92", "U+2C94", "U+2C96",
    "U+2C98", "U+2C9A", "U+2C9C", "U+2C9E", "U+2CA0", "U+2CA2", "U+2CA4", "U+2CA6", "U+2CA8",
    "U+2CAA", "U+2CAC", "U+2CAE", "U+2CB0", "U+2CB2", "U+2CB4", "U+2CB6", "U+2CB8", "U+2CBA",
    "U+2CBC", "U+2CBE", "U+2CC0", "U+2CC2", "U+2CC4", "U+2CC6", "U+2CC8", "U+2CCA", "U+2CCC",
    "U+2CCE", "U+2CD0", "U+2CD2", "U+2CD4", "U+2CD6", "U+2CD8", "U+2CDA", "U+2CDC", "U+2CDE",
    "U+2CE0", "U+2CE2", "U+2CEB", "U+2CED", "U+2CF2", "U+10A0", "U+10A1", "U+10A2", "U+10A3",
    "U+10A4", "U+10A5", "U+10A6", "U+10A7", "U+10A8", "U+10A9", "U+10AA", "U+10AB", "U+10AC",
    "U+10AD", "U+10AE", "U+10AF", "U+10B0", "U+10B1", "U+10B2", "U+10B3", "U+10B4", "U+10B5",
    "U+10B6", "U+10B7", "U+10B8", "U+10B9", "U+10BA", "U+10BB", "U+10BC", "U+10BD", "U+10BE",
    "U+10BF", "U+10C0", "U+10C1", "U+10C2", "U+10C3", "U+10C4", "U+10C5", "U+10C7", "U+10CD",
    "U+A640", "U+A642", "U+A644", "U+A646", "U+A648", "U+A64A", "U+A64C", "U+A64E", "U+A650",
    "U+A652", "U+A654", "U+A656", "U+A658", "U+A65A", "U+A65C", "U+A65E", "U+A660", "U+A662",
    "U+A664", "U+A666", "U+A668", "U+A66A", "U+A66C", "U+A680", "U+A682", "U+A684", "U+A686",
    "U+A688", "U+A68A", "U+A68C", "U+A68E", "U+A690", "U+A692", "U+A694", "U+A696", "U+A698",
    "U+A69A", "U+A722", "U+A724", "U+A726", "U+A728", "U+A72A", "U+A72C", "U+A72E", "U+A732",
    "U+A734", "U+A736", "U+A738", "U+A73A", "U+A73C", "U+A73E", "U+A740", "U+A742", "U+A744",
    "U+A746", "U+A748", "U+A74A", "U+A74C", "U+A74E", "U+A750", "U+A752", "U+A754", "U+A756",
    "U+A758", "U+A75A", "U+A75C", "U+A75E", "U+A760", "U+A762", "U+A764", "U+A766", "U+A768",
    "U+A76A", "U+A76C", "U+A76E", "U+A779", "U+A77B", "U+A77E", "U+A780", "U+A782", "U+A784",
    "U+A786", "U+A78B", "U+A790", "U+A792", "U+A7C4", "U+A796", "U+A798", "U+A79A", "U+A79C",
    "U+A79E", "U+A7A0", "U+A7A2", "U+A7A4", "U+A7A6", "U+A7A8", "U+A7B4", "U+A7B6", "U+A7B8",
    "U+A7BA", "U+A7BC", "U+A7BE", "U+A7C0", "U+A7C2", "U+A7C7", "U+A7C9", "U+A7D0", "U+A7D6",
    "U+A7D8", "U+A7F5", "U+A7B3", "U+13A0", "U+13A1", "U+13A2", "U+13A3", "U+13A4", "U+13A5",
    "U+13A6", "U+13A7", "U+13A8", "U+13A9", "U+13AA", "U+13AB", "U+13AC", "U+13AD", "U+13AE",
    "U+13AF", "U+13B0", "U+13B1", "U+13B2", "U+13B3", "U+13B4", "U+13B5", "U+13B6", "U+13B7",
    "U+13B8", "U+13B9", "U+13BA", "U+13BB", "U+13BC", "U+13BD", "U+13BE", "U+13BF", "U+13C0",
    "U+13C1", "U+13C2", "U+13C3", "U+13C4", "U+13C5", "U+13C6", "U+13C7", "U+13C8", "U+13C9",
    "U+13CA", "U+13CB", "U+13CC", "U+13CD", "U+13CE", "U+13CF", "U+13D0", "U+13D1", "U+13D2",
    "U+13D3", "U+13D4", "U+13D5", "U+13D6", "U+13D7", "U+13D8", "U+13D9", "U+13DA", "U+13DB",
    "U+13DC", "U+13DD", "U+13DE", "U+13DF", "U+13E0", "U+13E1", "U+13E2", "U+13E3", "U+13E4",
    "U+13E5", "U+13E6", "U+13E7", "U+13E8", "U+13E9", "U+13EA", "U+13EB", "U+13EC", "U+13ED",
    "U+13EE", "U+13EF", "U+FF21", "U+FF22", "U+FF23", "U+FF24", "U+FF25", "U+FF26", "U+FF27",
    "U+FF28", "U+FF29", "U+FF2A", "U+FF2B", "U+FF2C", "U+FF2D", "U+FF2E", "U+FF2F", "U+FF30",
    "U+FF31", "U+FF32", "U+FF33", "U+FF34", "U+FF35", "U+FF36", "U+FF37", "U+FF38", "U+FF39",
    "U+FF3A", "U+10400", "U+10401", "U+10402", "U+10403", "U+10404", "U+10405", "U+10406",
    "U+10407", "U+10408", "U+10409", "U+1040A", "U+1040B", "U+1040C", "U+1040D", "U+1040E",
    "U+1040F", "U+10410", "U+10411", "U+10412", "U+10413", "U+10414", "U+10415", "U+10416",
    "U+10417", "U+10418", "U+10419", "U+1041A", "U+1041B", "U+1041C", "U+1041D", "U+1041E",
    "U+1041F", "U+10420", "U+10421", "U+10422", "U+10423", "U+10424", "U+10425", "U+10426",
    "U+10427", "U+104B0", "U+104B1", "U+104B2", "U+104B3", "U+104B4", "U+104B5", "U+104B6",
    "U+104B7", "U+104B8", "U+104B9", "U+104BA", "U+104BB", "U+104BC", "U+104BD", "U+104BE",
    "U+104BF", "U+104C0", "U+104C1", "U+104C2", "U+104C3", "U+104C4", "U+104C5", "U+104C6",
    "U+104C7", "U+104C8", "U+104C9", "U+104CA", "U+104CB", "U+104CC", "U+104CD", "U+104CE",
    "U+104CF", "U+104D0", "U+104D1", "U+104D2", "U+104D3", "U+10570", "U+10571", "U+10572",
    "U+10573", "U+10574", "U+10575", "U+10576", "U+10577", "U+10578", "U+10579", "U+1057A",
    "U+1057C", "U+1057D", "U+1057E", "U+1057F", "U+10580", "U+10581", "U+10582", "U+10583",
    "U+10584", "U+10585", "U+10586", "U+10587", "U+10588", "U+10589", "U+1058A", "U+1058C",
    "U+1058D", "U+1058E", "U+1058F", "U+10590", "U+10591", "U+10592", "U+10594", "U+10595",
    "U+10C80", "U+10C81", "U+10C82", "U+10C83", "U+10C84", "U+10C85", "U+10C86", "U+10C87",
    "U+10C88", "U+10C89", "U+10C8A", "U+10C8B", "U+10C8C", "U+10C8D", "U+10C8E", "U+10C8F",
    "U+10C90", "U+10C91", "U+10C92", "U+10C93", "U+10C94", "U+10C95", "U+10C96", "U+10C97",
    "U+10C98", "U+10C99", "U+10C9A", "U+10C9B", "U+10C9C", "U+10C9D", "U+10C9E", "U+10C9F",
    "U+10CA0", "U+10CA1", "U+10CA2", "U+10CA3", "U+10CA4", "U+10CA5", "U+10CA6", "U+10CA7",
    "U+10CA8", "U+10CA9", "U+10CAA", "U+10CAB", "U+10CAC", "U+10CAD", "U+10CAE", "U+10CAF",
    "U+10CB0", "U+10CB1", "U+10CB2", "U+118A0", "U+118A1", "U+118A2", "U+118A3", "U+118A4",
    "U+118A5", "U+118A6", "U+118A7", "U+118A8", "U+118A9", "U+118AA", "U+118AB", "U+118AC",
    "U+118AD", "U+118AE", "U+118AF", "U+118B0", "U+118B1", "U+118B2", "U+118B3", "U+118B4",
    "U+118B5", "U+118B6", "U+118B7", "U+118B8", "U+118B9", "U+118BA", "U+118BB", "U+118BC",
    "U+118BD", "U+118BE", "U+118BF", "U+16E40", "U+16E41", "U+16E42", "U+16E43", "U+16E44",
    "U+16E45", "U+16E46", "U+16E47", "U+16E48", "U+16E49", "U+16E4A", "U+16E4B", "U+16E4C",
    "U+16E4D", "U+16E4E", "U+16E4F", "U+16E50", "U+16E51", "U+16E52", "U+16E53", "U+16E54",
    "U+16E55", "U+16E56", "U+16E57", "U+16E58", "U+16E59", "U+16E5A", "U+16E5B", "U+16E5C",
    "U+16E5D", "U+16E5E", "U+16E5F", "U+1E900", "U+1E901", "U+1E902", "U+1E903", "U+1E904",
    "U+1E905", "U+1E906", "U+1E907", "U+1E908", "U+1E909", "U+1E90A", "U+1E90B", "U+1E90C",
    "U+1E90D", "U+1E90E", "U+1E90F", "U+1E910", "U+1E911", "U+1E912", "U+1E913", "U+1E914",
    "U+1E915", "U+1E916", "U+1E917", "U+1E918", "U+1E919", "U+1E91A", "U+1E91B", "U+1E91C",
    "U+1E91D", "U+1E91E", "U+1E91F", "U+1E920", "U+1E921">>
UpperLongKeys ==
  <<"ß", "U+0149", "U+01F0", "U+0390", "U+03B0", "U+0587", "U+1E96", "U+1E97", "U+1E98",
    "U+1E99", "U+1E9A", "U+1F50", "U+1F52", "U+1F54", "U+1F56", "U+1F80", "U+1F81", "U+1F82",
    "U+1F83", "U+1F84", "U+1F85", "U+1F86", "U+1F87", "U+1F88", "U+1F89", "U+1F8A", "U+1F8B",
    "U+1F8C", "U+1F8D", "U+1F8E", "U+1F8F", "U+1F90", "U+1F91", "U+1F92", "U+1F93", "U+1F94",
    "U+1F95", "U+1F96", "U+1F97", "U+1F98", "U+1F99", "U+1F9A", "U+1F9B", "U+1F9C", "U+1F9D",
    "U+1F9E", "U+1F9F", "U+1FA0", "U+1FA1", "U+1FA2", "U+1FA3", "U+1FA4", "U+1FA5", "U+1FA6",
    "U+1FA7", "U+1FA8", "U+1FA9", "U+1FAA", "U+1FAB", "U+1FAC", "U+1FAD", "U+1FAE", "U+1FAF",
    "U+1FB2", "U+1FB3", "U+1FB4", "U+1FB6", "U+1FB7", "U+1FBC", "U+1FC2", "U+1FC3", "U+1FC4",
    "U+1FC6", "U+1FC7", "U+1FCC", "U+1FD2", "U+1FD3", "U+1FD6", "U+1FD7", "U+1FE2", "U+1FE3",
    "U+1FE4", "U+1FE6", "U+1FE7", "U+1FF2", "U+1FF3", "U+1FF4", "U+1FF6", "U+1FF7", "U+1FFC",
    "U+FB00", "U+FB01", "U+FB02", "U+FB03", "U+FB04", "U+FB05", "U+FB06", "U+FB13", "U+FB14",
    "U+FB15", "U+FB16", "U+FB17">>
UpperLongValues ==
  <<<<"S", "S">>, <<"U+02BC", "N">>, <<"J", "U+030C">>, <<"U+0399", "U+0308", "U+0301">>,
    <<"U+03A5", "U+0308", "U+0301">>, <<"U+0535", "U+0552">>, <<"H", "U+0331">>,
    <<"T", "U+0308">>, <<"W", "U+030A">>, <<"Y", "U+030A">>, <<"A", "U+02BE">>,
    <<"U+03A5", "U+0313">>, <<"U+03A5", "U+0313", "U+0300">>, <<"U+03A5", "U+0313", "U+0301">>,
    <<"U+03A5", "U+0313", "U+0342">>, <<"U+1F08", "U+0399">>, <<"U+1F09", "U+0399">>,
    <<"U+1F0A", "U+0399">>, <<"U+1F0B", "U+0399">>, <<"U+1F0C", "U+0399">>,
    <<"U+1F0D", "U+0399">>, <<"U+1F0E", "U+0399">>, <<"U+1F0F", "U+0399">>,
    <<"U+1F08", "U+0399">>, <<"U+1F09", "U+0399">>, <<"U+1F0A", "U+0399">>,
    <<"U+1F0B", "U+0399">>, <<"U+1F0C", "U+0399">>, <<"U+1F0D", "U+0399">>,
    <<"U+1F0E", "U+0399">>, <<"U+1F0F", "U+0399">>, <<"U+1F28", "U+0399">>,
    <<"U+1F29", "U+0399">>, <<"U+1F2A", "U+0399">>, <<"U+1F2B", "U+0399">>,
    <<"U+1F2C", "U+0399">>, <<"U+1F2D", "U+0399">>, <<"U+1F2E", "U+0399">>,
    <<"U+1F2F", "U+0399">>, <<"U+1F28", "U+0399">>, <<"U+1F29", "U+0399">>,
    <<"U+1F2A", "U+0399">>, <<"U+1F2B", "U+0399">>, <<"U+1F2C", "U+0399">>,
    <<"U+1F2D", "U+0399">>, <<"U+1F2E", "U+0399">>, <<"U+1F2F", "U+0399">>,
    <<"U+1F68", "U+0399">>, <<"U+1F69", "U+0399">>, <<"U+1F6A", "U+0399">>,
    <<"U+1F6B", "U+0399">>, <<"U+1F6C", "U+0399">>, <<"U+1F6D", "U+0399">>,
    <<"U+1F6E", "U+0399">>, <<"U+1F6F", "U+0399">>, <<"U+1F68", "U+0399">>,
    <<"U+1F69", "U+0399">>, <<"U+1F6A", "U+0399">>, <<"U+1F6B", "U+0399">>,
    <<"U+1F6C", "U+0399">>, <<"U+1F6D", "U+0399">>, <<"U+1F6E", "U+0399">>,
    <<"U+1F6F", "U+0399">>, <<"U+1FBA", "U+0399">>, <<"U+0391", "U+0399">>,
    <<"U+0386", "U+0399">>, <<"U+0391", "U+0342">>, <<"U+0391", "U+0342", "U+0399">>,
    <<"U+0391", "U+0399">>, <<"U+1FCA", "U+0399">>, <<"U+0397", "U+0399">>,
    <<"U+0389", "U+0399">>, <<"U+0397", "U+0342">>, <<"U+0397", "U+0342", "U+0399">>,
    <<"U+0397", "U+0399">>, <<"U+0399", "U+0308", "U+0300">>, <<"U+0399", "U+0308", "U+0301">>,
    <<"U+0399", "U+0342">>, <<"U+0399", "U+0308", "U+0342">>, <<"U+03A5", "U+0308", "U+0300">>,
    <<"U+03A5", "U+0308", "U+0301">>, <<"U+03A1", "U+0313">>, <<"U+03A5", "U+0342">>,
    <<"U+03A5", "U+0308", "U+0342">>, <<"U+1FFA", "U+0399">>, <<"U+03A9", "U+0399">>,
    <<"U+038F", "U+0399">>, <<"U+03A9", "U+0342">>, <<"U+03A9", "U+0342", "U+0399">>,
    <<"U+03A9", "U+0399">>, <<"F", "F">>, <<"F", "I">>, <<"F", "L">>, <<"F", "F", "I">>,
    <<"F", "F", "L">>, <<"S", "T">>, <<"S", "T">>, <<"U+0544", "U+0546">>,
    <<"U+0544", "U+0535">>, <<"U+0544", "U+053B">>, <<"U+054E", "U+0546">>,
    <<"U+0544", "U+053D">>>>

\* str.lower(): the characters it writes as one other character, with that
\* character at the same place of LowerValues; the capital sigma is written as
\* the small one here and as the final one where it ends a word
LowerKeys ==
  <<"A", "B", "C", "D", "E", "F", "G", "H", "I", "J", "K", "L", "M", "N", "O", "P", "Q", "R",
    "S", "T", "U", "V", "W", "X", "Y", "Z", "À", "Á", "Â", "Ã", "Ä", "Å", "Æ", "Ç", "È", "É",
    "Ê", "Ë", "Ì", "Í", "Î", "Ï", "Ð", "Ñ", "Ò", "Ó", "Ô", "Õ", "Ö", "Ø", "Ù", "Ú", "Û", "Ü",
    "Ý", "Þ", "U+0100", "U+0102", "U+0104", "U+0106", "U+0108", "U+010A", "U+010C", "U+010E",
    "U+0110", "U+0112", "U+0114", "U+0116", "U+0118", "U+011A", "U+011C", "U+011E", "U+0120",
    "U+0122", "U+0124", "U+0126", "U+0128", "U+012A", "U+012C", "U+012E", "U+0132", "U+0134",
    "U+0136", "U+0139", "U+013B", "U+013D", "U+013F", "U+0141", "U+0143", "U+0145", "U+0147",
    "U+014A", "U+014C", "U+014E", "U+0150", "U+0152", "U+0154", "U+0156", "U+0158", "U+015A",
    "U+015C", "U+015E", "U+0160", "U+0162", "U+0164", "U+0166", "U+0168", "U+016A", "U+016C",
    "U+016E", "U+0170", "U+0172", "U+0174", "U+0176", "U+0178", "U+0179", "U+017B", "U+017D",
    "U+0181", "U+0182", "U+0184", "U+0186", "U+0187", "U+0189", "U+018A", "U+018B", "U+018E",
    "U+018F", "U+0190", "U+0191", "U+0193", "U+0194", "U+0196", "U+0197", "U+0198", "U+019C",
    "U+019D", "U+019F", "U+01A0", "U+01A2", "U+01A4", "U+01A6", "U+01A7", "U+01A9", "U+01AC",
    "U+01AE", "U+01AF", "U+01B1", "U+01B2", "U+01B3", "U+01B5", "U+01B7", "U+01B8", "U+01BC",
    "U+01C4", "U+01C5", "U+01C7", "U+01C8", "U+01CA", "U+01CB", "U+01CD", "U+01CF", "U+01D1",
    "U+01D3", "U+01D5", "U+01D7", "U+01D9", "U+01DB", "U+01DE", "U+01E0", "U+01E2", "U+01E4",
    "U+01E6", "U+01E8", "U+01EA", "U+01EC", "U+01EE", "U+01F1", "U+01F2", "U+01F4", "U+01F6",
    "U+01F7", "U+01F8", "U+01FA", "U+01FC", "U+01FE", "U+0200", "U+0202", "U+0204", "U+0206",
    "U+0208", "U+020A", "U+020C", "U+020E", "U+0210", "U+0212", "U+0214", "U+0216", "U+0218",
    "U+021A", "U+021C", "U+021E", "U+0220", "U+0222", "U+0224", "U+0226", "U+0228", "U+022A",
    "U+022C", "U+022E", "U+0230", "U+0232", "U+023A", "U+023B", "U+023D", "U+023E", "U+0241",
    "U+0243", "U+0244", "U+0245", "U+0246", "U+0248", "U+024A", "U+024C", "U+024E", "U+0370",
    "U+0372", "U+0376", "U+037F", "U+0386", "U+0388", "U+0389", "U+038A", "U+038C", "U+038E",
    "U+038F", "U+0391", "U+0392", "U+0393", "U+0394", "U+0395", "U+0396", "U+0397", "U+0398",
    "U+0399", "U+039A", "U+039B", "U+039C", "U+039D", "U+039E", "U+039F", "U+03A0", "U+03A1",
    "U+03A3", "U+03A4", "U+03A5", "U+03A6", "U+03A7", "U+03A8", "U+03A9", "U+03AA", "U+03AB",
    "U+03CF", "U+03D8", "U+03DA", "U+03DC", "U+03DE", "U+03E0", "U+03E2", "U+03E4", "U+03E6",
    "U+03E8", "U+03EA", "U+03EC", "U+03EE", "U+03F4", "U+03F7", "U+03F9", "U+03FA", "U+03FD",
    "U+03FE", "U+03FF", "U+0400", "U+0401", "U+0402", "U+0403", "U+0404", "U+0405", "U+0406",
    "U+0407", "U+0408", "U+0409", "U+040A", "U+040B", "U+040C", "U+040D", "U+040E", "U+040F",
    "U+0410", "U+0411", "U+0412", "U+0413", "U+0414", "U+0415", "U+0416", "U+0417", "U+0418",
    "U+0419", "U+041A", "U+041B", "U+041C", "U+041D", "U+041E", "U+041F", "U+0420", "U+0421",
    "U+0422", "U+0423", "U+0424", "U+0425", "U+0426", "U+0427", "U+0428", "U+0429", "U+042A",
    "U+042B", "U+042C", "U+042D", "U+042E", "U+042F", "U+0460", "U+0462", "U+0464", "U+0466",
    "U+0468", "U+046A", "U+046C", "U+046E", "U+0470", "U+0472", "U+0474", "U+0476", "U+0478",
    "U+047A", "U+047C", "U+047E", "U+0480", "U+048A", "U+048C", "U+048E", "U+0490", "U+0492",
    "U+0494", "U+0496", "U+0498", "U+049A", "U+049C", "U+049E", "U+04A0", "U+04A2", "U+04A4",
    "U+04A6", "U+04A8", "U+04AA", "U+04AC", "U+04AE", "U+04B0", "U+04B2", "U+04B4", "U+04B6",
    "U+04B8", "U+04BA", "U+04BC", "U+04BE", "U+04C0", "U+04C1", "U+04C3", "U+04C5", "U+04C7",
    "U+04C9", "U+04CB", "U+04CD", "U+04D0", "U+04D2", "U+04D4", "U+04D6", "U+04D8", "U+04DA",
    "U+04DC", "U+04DE", "U+04E0", "U+04E2", "U+04E4", "U+04E6", "U+04E8", "U+04EA", "U+04EC",
    "U+04EE", "U+04F0", "U+04F2", "U+04F4", "U+04F6", "U+04F8", "U+04FA", "U+04FC", "U+04FE",
    "U+0500", "U+0502", "U+0504", "U+0506", "U+0508", "U+050A", "U+050C", "U+050E", "U+0510",
    "U+0512", "U+0514", "U+0516", "U+0518", "U+051A", "U+051C", "U+051E", "U+0520", "U+0522",
    "U+0524", "U+0526", "U+0528", "U+052A", "U+052C", "U+052E", "U+0531", "U+0532", "U+0533",
    "U+0534", "U+0535", "U+0536", "U+0537", "U+0538", "U+0539", "U+053A", "U+053B", "U+053C",
    "U+053D", "U+053E", "U+053F", "U+0540", "U+0541", "U+0542", "U+0543", "U+0544", "U+0545",
    "U+0546", "U+0547", "U+0548", "U+0549", "U+054A", "U+054B", "U+054C", "U+054D", "U+054E",
    "U+054F", "U+0550", "U+0551", "U+0552", "U+0553", "U+0554", "U+0555", "U+0556", "U+10A0",
    "U+10A1", "U+10A2", "U+10A3", "U+10A4", "U+10A5", "U+10A6", "U+10A7", "U+10A8", "U+10A9",
    "U+10AA", "U+10AB", "U+10AC", "U+10AD", "U+10AE", "U+10AF", "U+10B0", "U+10B1", "U+10B2",
    "U+10B3", "U+10B4", "U+10B5", "U+10B6", "U+10B7", "U+10B8", "U+10B9", "U+10BA", "U+10BB",
    "U+10BC", "U+10BD", "U+10BE", "U+10BF", "U+10C0", "U+10C1", "U+10C2", "U+10C3", "U+10C4",
    "U+10C5", "U+10C7", "U+10CD", "U+13A0", "U+13A1", "U+13A2", "U+13A3", "U+13A4", "U+13A5",
    "U+13A6", "U+13A7", "U+13A8", "U+13A9", "U+13AA", "U+13AB", "U+13AC", "U+13AD", "U+13AE",
    "U+13AF", "U+13B0", "U+13B1", "U+13B2", "U+13B3", "U+13B4", "U+13B5", "U+13B6", "U+13B7",
    "U+13B8", "U+13B9", "U+13BA", "U+13BB", "U+13BC", "U+13BD", "U+13BE", "U+13BF", "U+13C0",
    "U+13C1", "U+13C2", "U+13C3", "U+13C4", "U+13C5", "U+13C6", "U+13C7", "U+13C8", "U+13C9",
    "U+13CA", "U+13CB", "U+13CC", "U+13CD", "U+13CE", "U+13CF", "U+13D0", "U+13D1", "U+13D2",
    "U+13D3", "U+13D4", "U+13D5", "U+13D6", "U+13D7", "U+13D8", "U+13D9", "U+13DA", "U+13DB",
    "U+13DC", "U+13DD", "U+13DE", "U+13DF", "U+13E0", "U+13E1", "U+13E2", "U+13E3", "U+13E4",
    "U+13E5", "U+13E6", "U+13E7", "U+13E8", "U+13E9", "U+13EA", "U+13EB", "U+13EC", "U+13ED",
    "U+13EE", "U+13EF", "U+13F0", "U+13F1", "U+13F2", "U+13F3", "U+13F4", "U+13F5", "U+1C90",
    "U+1C91", "U+1C92", "U+1C93", "U+1C94", "U+1C95", "U+1C96", "U+1C97", "U+1C98", "U+1C99",
    "U+1C9A", "U+1C9B", "U+1C9C", "U+1C9D", "U+1C9E", "U+1C9F", "U+1CA0", "U+1CA1", "U+1CA2",
    "U+1CA3", "U+1CA4", "U+1CA5", "U+1CA6", "U+1CA7", "U+1CA8", "U+1CA9", "U+1CAA", "U+1CAB",
    "U+1CAC", "U+1CAD", "U+1CAE", "U+1CAF", "U+1CB0", "U+1CB1", "U+1CB2", "U+1CB3", "U+1CB4",
    "U+1CB5", "U+1CB6", "U+1CB7", "U+1CB8", "U+1CB9", "U+1CBA", "U+1CBD", "U+1CBE", "U+1CBF",
    "U+1E00", "U+1E02", "U+1E04", "U+1E06", "U+1E08", "U+1E0A", "U+1E0C", "U+1E0E", "U+1E10",
    "U+1E12", "U+1E14", "U+1E16", "U+1E18", "U+1E1A", "U+1E1C", "U+1E1E", "U+1E20", "U+1E22",
    "U+1E24", "U+1E26", "U+1E28", "U+1E2A", "U+1E2C", "U+1E2E", "U+1E30", "U+1E32", "U+1E34",
    "U+1E36", "U+1E38", "U+1E3A", "U+1E3C", "U+1E3E", "U+1E40", "U+1E42", "U+1E44", "U+1E46",
    "U+1E48", "U+1E4A", "U+1E4C", "U+1E4E", "U+1E50", "U+1E52", "U+1E54", "U+1E56", "U+1E58",
    "U+1E5A", "U+1E5C", "U+1E5E", "U+1E60", "U+1E62", "U+1E64", "U+1E66", "U+1E68", "U+1E6A",
    "U+1E6C", "U+1E6E", "U+1E70", "U+1E72", "U+1E74", "U+1E76", "U+1E78", "U+1E7A", "U+1E7C",
    "U+1E7E", "U+1E80", "U+1E82", "U+1E84", "U+1E86", "U+1E88", "U+1E8A", "U+1E8C", "U+1E8E",
    "U+1E90", "U+1E92", "U+1E94", "U+1E9E", "U+1EA0", "U+1EA2", "U+1EA4", "U+1EA6", "U+1EA8",
    "U+1EAA", "U+1EAC", "U+1EAE", "U+1EB0", "U+1EB2", "U+1EB4", "U+1EB6", "U+1EB8", "U+1EBA",
    "U+1EBC", "U+1EBE", "U+1EC0", "U+1EC2", "U+1EC4", "U+1EC6", "U+1EC8", "U+1ECA", "U+1ECC",
    "U+1ECE", "U+1ED0", "U+1ED2", "U+1ED4", "U+1ED6", "U+1ED8", "U+1EDA", "U+1EDC", "U+1EDE",
    "U+1EE0", "U+1EE2", "U+1EE4", "U+1EE6", "U+1EE8", "U+1EEA", "U+1EEC", "U+1EEE", "U+1EF0",
    "U+1EF2", "U+1EF4", "U+1EF6", "U+1EF8", "U+1EFA", "U+1EFC", "U+1EFE", "U+1F08", "U+1F09",
    "U+1F0A", "U+1F0B", "U+1F0C", "U+1F0D", "U+1F0E", "U+1F0F", "U+1F18", "U+1F19", "U+1F1A",
    "U+1F1B", "U+1F1C", "U+1F1D", "U+1F28", "U+1F29", "U+1F2A", "U+1F2B", "U+1F2C", "U+1F2D",
    "U+1F2E", "U+1F2F", "U+1F38", "U+1F39", "U+1F3A", "U+1F3B", "U+1F3C", "U+1F3D", "U+1F3E",
    "U+1F3F", "U+1F48", "U+1F49", "U+1F4A", "U+1F4B", "U+1F4C", "U+1F4D", "U+1F59", "U+1F5B",
    "U+1F5D", "U+1F5F", "U+1F68", "U+1F69", "U+1F6A", "U+1F6B", "U+1F6C", "U+1F6D", "U+1F6E",
    "U+1F6F", "U+1F88", "U+1F89", "U+1F8A", "U+1F8B", "U+1F8C", "U+1F8D", "U+1F8E", "U+1F8F",
    "U+1F98", "U+1F99", "U+1F9A", "U+1F9B", "U+1F9C", "U+1F9D", "U+1F9E", "U+1F9F", "U+1FA8",
    "U+1FA9", "U+1FAA", "U+1FAB", "U+1FAC", "U+1FAD", "U+1FAE", "U+1FAF", "U+1FB8", "U+1FB9",
    "U+1FBA", "U+1FBB", "U+1FBC", "U+1FC8", "U+1FC9", "U+1FCA", "U+1FCB", "U+1FCC", "U+1FD8",
    "U+1FD9", "U+1FDA", "U+1FDB", "U+1FE8", "U+1FE9", "U+1FEA", "U+1FEB", "U+1FEC", "U+1FF8",
    "U+1FF9", "U+1FFA", "U+1FFB", "U+1FFC", "U+2126", "U+212A", "U+212B", "U+2132", "U+2160",
    "U+2161", "U+2162", "U+2163", "U+2164", "U+2165", "U+2166", "U+2167", "U+2168", "U+2169",
    "U+216A", "U+216B", "U+216C", "U+216D", "U+216E", "U+216F", "U+2183", "U+24B6", "U+24B7",
    "U+24B8", "U+24B9", "U+24BA", "U+24BB", "U+24BC", "U+24BD", "U+24BE", "U+24BF", "U+24C0",
    "U+24C1", "U+24C2", "U+24C3", "U+24C4", "U+24C5", "U+24C6", "U+24C7", "U+24C8", "U+24C9",
    "U+24CA", "U+24CB", "U+24CC", "U+24CD", "U+24CE", "U+24CF", "U+2C00", "U+2C01", "U+2C02",
    "U+2C03", "U+2C04", "U+2C05", "U+2C06", "U+2C07", "U+2C08", "U+2C09", "U+2C0A", "U+2C0B",
    "U+2C0C", "U+2C0D", "U+2C0E", "U+2C0F", "U+2C10", "U+2C11", "U+2C12", "U+2C13", "U+2C14",
    "U+2C15", "U+2C16", "U+2C17", "U+2C18", "U+2C19", "U+2C1A", "U+2C1B", "U+2C1C", "U+2C1D",
    "U+2C1E", "U+2C1F", "U+2C20", "U+2C21", "U+2C22", "U+2C23", "U+2C24", "U+2C25", "U+2C26",
    "U+2C27", "U+2C28", "U+2C29", "U+2C2A", "U+2C2B", "U+2C2C", "U+2C2D", "U+2C2E", "U+2C2F",
    "U+2C60", "U+2C62", "U+2C63", "U+2C64", "U+2C67", "U+2C69", "U+2C6B", "U+2C6D", "U+2C6E",
    "U+2C6F", "U+2C70", "U+2C72", "U+2C75", "U+2C7E", "U+2C7F", "U+2C80", "U+2C82", "U+2C84",
    "U+2C86", "U+2C88", "U+2C8A", "U+2C8C", "U+2C8E", "U+2C90", "U+2C92", "U+2C94", "U+2C96",
    "U+2C98", "U+2C9A", "U+2C9C", "U+2C9E", "U+2CA0", "U+2CA2", "U+2CA4", "U+2CA6", "U+2CA8",
    "U+2CAA", "U+2CAC", "U+2CAE", "U+2CB0", "U+2CB2", "U+2CB4", "U+2CB6", "U+2CB8", "U+2CBA",
    "U+2CBC", "U+2CBE", "U+2CC0", "U+2CC2", "U+2CC4", "U+2CC6", "U+2CC8", "U+2CCA", "U+2CCC",
    "U+2CCE", "U+2CD0", "U+2CD2", "U+2CD4", "U+2CD6", "U+2CD8", "U+2CDA", "U+2CDC", "U+2CDE",
    "U+2CE0", "U+2CE2", "U+2CEB", "U+2CED", "U+2CF2", "U+A640", "U+A642", "U+A644", "U+A646",
    "U+A648", "U+A64A", "U+A64C", "U+A64E", "U+A650", "U+A652", "U+A654", "U+A656", "U+A658",
    "U+A65A", "U+A65C", "U+A65E", "U+A660", "U+A662", "U+A664", "U+A666", "U+A668", "U+A66A",
    "U+A66C", "U+A680", "U+A682", "U+A684", "U+A686", "U+A688", "U+A68A", "U+A68C", "U+A68E",
    "U+A690", "U+A692", "U+A694", "U+A696", "U+A698", "U+A69A", "U+A722", "U+A724", "U+A726",
    "U+A728", "U+A72A", "U+A72C", "U+A72E", "U+A732", "U+A734", "U+A736", "U+A738", "U+A73A",
    "U+A73C", "U+A73E", "U+A740", "U+A742", "U+A744", "U+A746", "U+A748", "U+A74A", "U+A74C",
    "U+A74E", "U+A750", "U+A752", "U+A754", "U+A756", "U+A758", "U+A75A", "U+A75C", "U+A75E",
    "U+A760", "U+A762", "U+A764", "U+A766", "U+A768", "U+A76A", "U+A76C", "U+A76E", "U+A779",
    "U+A77B", "U+A77D", "U+A77E", "U+A780", "U+A782", "U+A784", "U+A786", "U+A78B", "U+A78D",
    "U+A790", "U+A792", "U+A796", "U+A798", "U+A79A", "U+A79C", "U+A79E", "U+A7A0", "U+A7A2",
    "U+A7A4", "U+A7A6", "U+A7A8", "U+A7AA", "U+A7AB", "U+A7AC", "U+A7AD", "U+A7AE", "U+A7B0",
    "U+A7B1", "U+A7B2", "U+A7B3", "U+A7B4", "U+A7B6", "U+A7B8", "U+A7BA", "U+A7BC", "U+A7BE",
    "U+A7C0", "U+A7C2", "U+A7C4", "U+A7C5", "U+A7C6", "U+A7C7", "U+A7C9", "U+A7D0", "U+A7D6",
    "U+A7D8", "U+A7F5", "U+FF21", "U+FF22", "U+FF23", "U+FF24", "U+FF25", "U+FF26", "U+FF27",
    "U+FF28", "U+FF29", "U+FF2A", "U+FF2B", "U+FF2C", "U+FF2D", "U+FF2E", "U+FF2F", "U+FF30",
    "U+FF31", "U+FF32", "U+FF33", "U+FF34", "U+FF35", "U+FF36", "U+FF37", "U+FF38", "U+FF39",
    "U+FF3A", "U+10400", "U+10401", "U+10402", "U+10403", "U+10404", "U+10405", "U+10406",
    "U+10407", "U+10408", "U+10409", "U+1040A", "U+1040B", "U+1040C", "U+1040D", "U+1040E",
    "U+1040F", "U+10410", "U+10411", "U+10412", "U+10413", "U+10414", "U+10415", "U+10416",
    "U+10417", "U+10418", "U+10419", "U+1041A", "U+1041B", "U+1041C", "U+1041D", "U+1041E",
    "U+1041F", "U+10420", "U+10421", "U+10422", "U+10423", "U+10424", "U+10425", "U+10426",
    "U+10427", "U+104B0", "U+104B1", "U+104B2", "U+104B3", "U+104B4", "U+104B5", "U+104B6",
    "U+104B7", "U+104B8", "U+104B9", "U+104BA", "U+104BB", "U+104BC", "U+104BD", "U+104BE",
    "U+104BF", "U+104C0", "U+104C1", "U+104C2", "U+104C3", "U+104C4", "U+104C5", "U+104C6",
    "U+104C7", "U+104C8", "U+104C9", "U+104CA", "U+104CB", "U+104CC", "U+104CD", "U+104CE",
    "U+104CF", "U+104D0", "U+104D1", "U+104D2", "U+104D3", "U+10570", "U+10571", "U+10572",
    "U+10573", "U+10574", "U+10575", "U+10576", "U+10577", "U+10578", "U+10579", "U+1057A",
    "U+1057C", "U+1057D", "U+1057E", "U+1057F", "U+10580", "U+10581", "U+10582", "U+10583",
    "U+10584", "U+10585", "U+10586", "U+10587", "U+10588", "U+10589", "U+1058A", "U+1058C",
    "U+1058D", "U+1058E", "U+1058F", "U+10590", "U+10591", "U+10592", "U+10594", "U+10595",
    "U+10C80", "U+10C81", "U+10C82", "U+10C83", "U+10C84", "U+10C85", "U+10C86", "U+10C87",
    "U+10C88", "U+10C89", "U+10C8A", "U+10C8B", "U+10C8C", "U+10C8D", "U+10C8E", "U+10C8F",
    "U+10C90", "U+10C91", "U+10C92", "U+10C93", "U+10C94", "U+10C95", "U+10C96", "U+10C97",
    "U+10C98", "U+10C99", "U+10C9A", "U+10C9B", "U+10C9C", "U+10C9D", "U+10C9E", "U+10C9F",
    "U+10CA0", "U+10CA1", "U+10CA2", "U+10CA3", "U+10CA4", "U+10CA5", "U+10CA6", "U+10CA7",
    "U+10CA8", "U+10CA9", "U+10CAA", "U+10CAB", "U+10CAC", "U+10CAD", "U+10CAE", "U+10CAF",
    "U+10CB0", "U+10CB1", "U+10CB2", "U+118A0", "U+118A1", "U+118A2", "U+118A3", "U+118A4",
    "U+118A5", "U+118A6", "U+118A7", "U+118A8", "U+118A9", "U+118AA", "U+118AB", "U+118AC",
    "U+118AD", "U+118AE", "U+118AF", "U+118B0", "U+118B1", "U+118B2", "U+118B3", "U+118B4",
    "U+118B5", "U+118B6", "U+118B7", "U+118B8", "U+118B9", "U+118BA", "U+118BB", "U+118BC",
    "U+118BD", "U+118BE", "U+118BF", "U+16E40", "U+16E41", "U+16E42", "U+16E43", "U+16E44",
    "U+16E45", "U+16E46", "U+16E47", "U+16E48", "U+16E49", "U+16E4A", "U+16E4B", "U+16E4C",
    "U+16E4D", "U+16E4E", "U+16E4F", "U+16E50", "U+16E51", "U+16E52", "U+16E53", "U+16E54",
    "U+16E55", "U+16E56", "U+16E57", "U+16E58", "U+16E59", "U+16E5A", "U+16E5B", "U+16E5C",
    "U+16E5D", "U+16E5E", "U+16E5F", "U+1E900", "U+1E901", "U+1E902", "U+1E903", "U+1E904",
    "U+1E905", "U+1E906", "U+1E907", "U+1E908", "U+1E909", "U+1E90A", "U+1E90B", "U+1E90C",
    "U+1E90D", "U+1E90E", "U+1E90F", "U+1E910", "U+1E911", "U+1E912", "U+1E913", "U+1E914",
    "U+1E915", "U+1E916", "U+1E917", "U+1E918", "U+1E919", "U+1E91A", "U+1E91B", "U+1E91C",
    "U+1E91D", "U+1E91E", "U+1E91F", "U+1E920", "U+1E921">>
LowerValues ==
  <<"a", "b", "c", "d", "e", "f", "g", "h", "i", "j", "k", "l", "m", "n", "o", "p", "q", "r",
    "s", "t", "u", "v", "w", "x", "y", "z", "à", "á", "â", "ã", "ä", "å", "æ", "ç", "è", "é",
    "ê", "ë", "ì", "í", "î", "ï", "ð", "ñ", "ò", "ó", "ô", "õ", "ö", "ø", "ù", "ú", "û", "ü",
    "ý", "þ", "U+0101", "U+0103", "U+0105", "U+0107", "U+0109", "U+010B", "U+010D", "U+010F",
    "U+0111", "U+0113", "U+0115", "U+0117", "U+0119", "U+011B", "U+011D", "U+011F", "U+0121",
    "U+0123", "U+0125", "U+0127", "U+0129", "U+012B", "U+012D", "U+012F", "U+0133", "U+0135",
    "U+0137", "U+013A", "U+013C", "U+013E", "U+0140", "U+0142", "U+0144", "U+0146", "U+0148",
    "U+014B", "U+014D", "U+014F", "U+0151", "U+0153", "U+0155", "U+0157", "U+0159", "U+015B",
    "U+015D", "U+015F", "U+0161", "U+0163", "U+0165", "U+0167", "U+0169", "U+016B", "U+016D",
    "U+016F", "U+0171", "U+0173", "U+0175", "U+0177", "ÿ", "U+017A", "U+017C", "U+017E",
    "U+0253", "U+0183", "U+0185", "U+0254", "U+0188", "U+0256", "U+0257", "U+018C", "U+01DD",
    "U+0259", "U+025B", "U+0192", "U+0260", "U+0263", "U+0269", "U+0268", "U+0199", "U+026F",
    "U+0272", "U+0275", "U+01A1", "U+01A3", "U+01A5", "U+0280", "U+01A8", "U+0283", "U+01AD",
    "U+0288", "U+01B0", "U+028A", "U+028B", "U+01B4", "U+01B6", "U+0292", "U+01B9", "U+01BD",
    "U+01C6", "U+01C6", "U+01C9", "U+01C9", "U+01CC", "U+01CC", "U+01CE", "U+01D0", "U+01D2",
    "U+01D4", "U+01D6", "U+01D8", "U+01DA", "U+01DC", "U+01DF", "U+01E1", "U+01E3", "U+01E5",
    "U+01E7", "U+01E9", "U+01EB", "U+01ED", "U+01EF", "U+01F3", "U+01F3", "U+01F5", "U+0195",
    "U+01BF", "U+01F9", "U+01FB", "U+01FD", "U+01FF", "U+0201", "U+0203", "U+0205", "U+0207",
    "U+0209", "U+020B", "U+020D", "U+020F", "U+0211", "U+0213", "U+0215", "U+0217", "U+0219",
    "U+021B", "U+021D", "U+021F", "U+019E", "U+0223", "U+0225", "U+0227", "U+0229", "U+022B",
    "U+022D", "U+022F", "U+0231", "U+0233", "U+2C65", "U+023C", "U+019A", "U+2C66", "U+0242",
    "U+0180", "U+0289", "U+028C", "U+0247", "U+0249", "U+024B", "U+024D", "U+024F", "U+0371",
    "U+0373", "U+0377", "U+03F3", "U+03AC", "U+03AD", "U+03AE", "U+03AF", "U+03CC", "U+03CD",
    "U+03CE", "U+03B1", "U+03B2", "U+03B3", "U+03B4", "U+03B5", "U+03B6", "U+03B7", "U+03B8",
    "U+03B9", "U+03BA", "U+03BB", "U+03BC", "U+03BD", "U+03BE", "U+03BF", "U+03C0", "U+03C1",
    "U+03C3", "U+03C4", "U+03C5", "U+03C6", "U+03C7", "U+03C8", "U+03C9", "U+03CA", "U+03CB",
    "U+03D7", "U+03D9", "U+03DB", "U+03DD", "U+03DF", "U+03E1", "U+03E3", "U+03E5", "U+03E7",
    "U+03E9", "U+03EB", "U+03ED", "U+03EF", "U+03B8", "U+03F8", "U+03F2", "U+03FB", "U+037B",
    "U+037C", "U+037D", "U+0450", "U+0451", "U+0452", "U+0453", "U+0454", "U+0455", "U+0456",
    "U+0457", "U+0458", "U+0459", "U+045A", "U+045B", "U+045C", "U+045D", "U+045E", "U+045F",
    "U+0430", "U+0431", "U+0432", "U+0433", "U+0434", "U+0435", "U+0436", "U+0437", "U+0438",
    "U+0439", "U+043A", "U+043B", "U+043C", "U+043D", "U+043E", "U+043F", "U+0440", "U+0441",
    "U+0442", "U+0443", "U+0444", "U+0445", "U+0446", "U+0447", "U+0448", "U+0449", "U+044A",
    "U+044B", "U+044C", "U+044D", "U+044E", "U+044F", "U+0461", "U+0463", "U+0465", "U+0467",
    "U+0469", "U+046B", "U+046D", "U+046F", "U+0471", "U+0473", "U+0475", "U+0477", "U+0479",
    "U+047B", "U+047D", "U+047F", "U+0481", "U+048B", "U+048D", "U+048F", "U+0491", "U+0493",
    "U+0495", "U+0497", "U+0499", "U+049B", "U+049D", "U+049F", "U+04A1", "U+04A3", "U+04A5",
    "U+04A7", "U+04A9", "U+04AB", "U+04AD", "U+04AF", "U+04B1", "U+04B3", "U+04B5", "U+04B7",
    "U+04B9", "U+04BB", "U+04BD", "U+04BF", "U+04CF", "U+04C2", "U+04C4", "U+04C6", "U+04C8",
    "U+04CA", "U+04CC", "U+04CE", "U+04D1", "U+04D3", "U+04D5", "U+04D7", "U+04D9", "U+04DB",
    "U+04DD", "U+04DF", "U+04E1", "U+04E3", "U+04E5", "U+04E7", "U+04E9", "U+04EB", "U+04ED",
    "U+04EF", "U+04F1", "U+04F3", "U+04F5", "U+04F7", "U+04F9", "U+04FB", "U+04FD", "U+04FF",
    "U+0501", "U+0503", "U+0505", "U+0507", "U+0509", "U+050B", "U+050D", "U+050F", "U+0511",
    "U+0513", "U+0515", "U+0517", "U+0519", "U+051B", "U+051D", "U+051F", "U+0521", "U+0523",
    "U+0525", "U+0527", "U+0529", "U+052B", "U+052D", "U+052F", "U+0561", "U+0562", "U+0563",
    "U+0564", "U+0565", "U+0566", "U+0567", "U+0568", "U+0569", "U+056A", "U+056B", "U+056C",
    "U+056D", "U+056E", "U+056F", "U+0570", "U+0571", "U+0572", "U+0573", "U+0574", "U+0575",
    "U+0576", "U+0577", "U+0578", "U+0579", "U+057A", "U+057B", "U+057C", "U+057D", "U+057E",
    "U+057F", "U+0580", "U+0581", "U+0582", "U+0583", "U+0584", "U+0585", "U+0586", "U+2D00",
    "U+2D01", "U+2D02", "U+2D03", "U+2D04", "U+2D05", "U+2D06", "U+2D07", "U+2D08", "U+2D09",
    "U+2D0A", "U+2D0B", "U+2D0C", "U+2D0D", "U+2D0E", "U+2D0F", "U+2D10", "U+2D11", "U+2D12",
    "U+2D13", "U+2D14", "U+2D15", "U+2D16", "U+2D17", "U+2D18", "U+2D19", "U+2D1A", "U+2D1B",
    "U+2D1C", "U+2D1D", "U+2D1E", "U+2D1F", "U+2D20", "U+2D21", "U+2D22", "U+2D23", "U+2D24",
    "U+2D25", "U+2D27", "U+2D2D", "U+AB70", "U+AB71", "U+AB72", "U+AB73", "U+AB74", "U+AB75",
    "U+AB76", "U+AB77", "U+AB78", "U+AB79", "U+AB7A", "U+AB7B", "U+AB7C", "U+AB7D", "U+AB7E",
    "U+AB7F", "U+AB80", "U+AB81", "U+AB82", "U+AB83", "U+AB84", "U+AB85", "U+AB86", "U+AB87",
    "U+AB88", "U+AB89", "U+AB8A", "U+AB8B", "U+AB8C", "U+AB8D", "U+AB8E", "U+AB8F", "U+AB90",
    "U+AB91", "U+AB92", "U+AB93", "U+AB94", "U+AB95", "U+AB96", "U+AB97", "U+AB98", "U+AB99",
    "U+AB9A", "U+AB9B", "U+AB9C", "U+AB9D", "U+AB9E", "U+AB9F", "U+ABA0", "U+ABA1", "U+ABA2",
    "U+ABA3", "U+ABA4", "U+ABA5", "U+ABA6", "U+ABA7", "U+ABA8", "U+ABA9", "U+ABAA", "U+ABAB",
    "U+ABAC", "U+ABAD", "U+ABAE", "U+ABAF", "U+ABB0", "U+ABB1", "U+ABB2", "U+ABB3", "U+ABB4",
    "U+ABB5", "U+ABB6", "U+ABB7", "U+ABB8", "U+ABB9", "U+ABBA", "U+ABBB", "U+ABBC", "U+ABBD",
    "U+ABBE", "U+ABBF", "U+13F8", "U+13F9", "U+13FA", "U+13FB", "U+13FC", "U+13FD", "U+10D0",
    "U+10D1", "U+10D2", "U+10D3", "U+10D4", "U+10D5", "U+10D6", "U+10D7", "U+10D8", "U+10D9",
    "U+10DA", "U+10DB", "U+10DC", "U+10DD", "U+10DE", "U+10DF", "U+10E0", "U+10E1", "U+10E2",
    "U+10E3", "U+10E4", "U+10E5", "U+10E6", "U+10E7", "U+10E8", "U+10E9", "U+10EA", "U+10EB",
    "U+10EC", "U+10ED", "U+10EE", "U+10EF", "U+10F0", "U+10F1", "U+10F2", "U+10F3", "U+10F4",
    "U+10F5", "U+10F6", "U+10F7", "U+10F8", "U+10F9", "U+10FA", "U+10FD", "U+10FE", "U+10FF",
    "U+1E01", "U+1E03", "U+1E05", "U+1E07", "U+1E09", "U+1E0B", "U+1E0D", "U+1E0F", "U+1E11",
    "U+1E13", "U+1E15", "U+1E17", "U+1E19", "U+1E1B", "U+1E1D", "U+1E1F", "U+1E21", "U+1E23",
    "U+1E25", "U+1E27", "U+1E29", "U+1E2B", "U+1E2D", "U+1E2F", "U+1E31", "U+1E33", "U+1E35",
    "U+1E37", "U+1E39", "U+1E3B", "U+1E3D", "U+1E3F", "U+1E41", "U+1E43", "U+1E45", "U+1E47",
    "U+1E49", "U+1E4B", "U+1E4D", "U+1E4F", "U+1E51", "U+1E53", "U+1E55", "U+1E57", "U+1E59",
    "U+1E5B", "U+1E5D", "U+1E5F", "U+1E61", "U+1E63", "U+1E65", "U+1E67", "U+1E69", "U+1E6B",
    "U+1E6D", "U+1E6F", "U+1E71", "U+1E73", "U+1E75", "U+1E77", "U+1E79", "U+1E7B", "U+1E7D",
    "U+1E7F", "U+1E81", "U+1E83", "U+1E85", "U+1E87", "U+1E89", "U+1E8B", "U+1E8D", "U+1E8F",
    "U+1E91", "U+1E93", "U+1E95", "ß", "U+1EA1", "U+1EA3", "U+1EA5", "U+1EA7", "U+1EA9",
    "U+1EAB", "U+1EAD", "U+1EAF", "U+1EB1", "U+1EB3", "U+1EB5", "U+1EB7", "U+1EB9", "U+1EBB",
    "U+1EBD", "U+1EBF", "U+1EC1", "U+1EC3", "U+1EC5", "U+1EC7", "U+1EC9", "U+1ECB", "U+1ECD",
    "U+1ECF", "U+1ED1", "U+1ED3", "U+1ED5", "U+1ED7", "U+1ED9", "U+1EDB", "U+1EDD", "U+1EDF",
    "U+1EE1", "U+1EE3", "U+1EE5", "U+1EE7", "U+1EE9", "U+1EEB", "U+1EED", "U+1EEF", "U+1EF1",
    "U+1EF3", "U+1EF5", "U+1EF7", "U+1EF9", "U+1EFB", "U+1EFD", "U+1EFF", "U+1F00", "U+1F01",
    "U+1F02", "U+1F03", "U+1F04", "U+1F05", "U+1F06", "U+1F07", "U+1F10", "U+1F11", "U+1F12",
    "U+1F13", "U+1F14", "U+1F15", "U+1F20", "U+1F21", "U+1F22", "U+1F23", "U+1F24", "U+1F25",
    "U+1F26", "U+1F27", "U+1F30", "U+1F31", "U+1F32", "U+1F33", "U+1F34", "U+1F35", "U+1F36",
    "U+1F37", "U+1F40", "U+1F41", "U+1F42", "U+1F43", "U+1F44", "U+1F45", "U+1F51", "U+1F53",
    "U+1F55", "U+1F57", "U+1F60", "U+1F61", "U+1F62", "U+1F63", "U+1F64", "U+1F65", "U+1F66",
    "U+1F67", "U+1F80", "U+1F81", "U+1F82", "U+1F83", "U+1F84", "U+1F85", "U+1F86", "U+1F87",
    "U+1F90", "U+1F91", "U+1F92", "U+1F93", "U+1F94", "U+1F95", "U+1F96", "U+1F97", "U+1FA0",
    "U+1FA1", "U+1FA2", "U+1FA3", "U+1FA4", "U+1FA5", "U+1FA6", "U+1FA7", "U+1FB0", "U+1FB1",
    "U+1F70", "U+1F71", "U+1FB3", "U+1F72", "U+1F73", "U+1F74", "U+1F75", "U+1FC3", "U+1FD0",
    "U+1FD1", "U+1F76", "U+1F77", "U+1FE0", "U+1FE1", "U+1F7A", "U+1F7B", "U+1FE5", "U+1F78",
    "U+1F79", "U+1F7C", "U+1F7D", "U+1FF3", "U+03C9", "k", "å", "U+214E", "U+2170", "U+2171",
    "U+2172", "U+2173", "U+2174", "U+2175", "U+2176", "U+2177", "U+2178", "U+2179", "U+217A",
    "U+217B", "U+217C", "U+217D", "U+217E", "U+217F", "U+2184", "U+24D0", "U+24D1", "U+24D2",
    "U+24D3", "U+24D4", "U+24D5", "U+24D6", "U+24D7", "U+24D8", "U+24D9", "U+24DA", "U+24DB",
    "U+24DC", "U+24DD", "U+24DE", "U+24DF", "U+24E0", "U+24E1", "U+24E2", "U+24E3", "U+24E4",
    "U+24E5", "U+24E6", "U+24E7", "U+24E8", "U+24E9", "U+2C30", "U+2C31", "U+2C32", "U+2C33",
    "U+2C34", "U+2C35", "U+2C36", "U+2C37", "U+2C38", "U+2C39", "U+2C3A", "U+2C3B", "U+2C3C",
    "U+2C3D", "U+2C3E", "U+2C3F", "U+2C40", "U+2C41", "U+2C42", "U+2C43", "U+2C44", "U+2C45",
    "U+2C46", "U+2C47", "U+2C48", "U+2C49", "U+2C4A", "U+2C4B", "U+2C4C", "U+2C4D", "U+2C4E",
    "U+2C4F", "U+2C50", "U+2C51", "U+2C52", "U+2C53", "U+2C54", "U+2C55", "U+2C56", "U+2C57",
    "U+2C58", "U+2C59", "U+2C5A", "U+2C5B", "U+2C5C", "U+2C5D", "U+2C5E", "U+2C5F", "U+2C61",
    "U+026B", "U+1D7D", "U+027D", "U+2C68", "U+2C6A", "U+2C6C", "U+0251", "U+0271", "U+0250",
    "U+0252", "U+2C73", "U+2C76", "U+023F", "U+0240", "U+2C81", "U+2C83", "U+2C85", "U+2C87",
    "U+2C89", "U+2C8B", "U+2C8D", "U+2C8F", "U+2C91", "U+2C93", "U+2C95", "U+2C97", "U+2C99",
    "U+2C9B", "U+2C9D", "U+2C9F", "U+2CA1", "U+2CA3", "U+2CA5", "U+2CA7", "U+2CA9", "U+2CAB",
    "U+2CAD", "U+2CAF", "U+2CB1", "U+2CB3", "U+2CB5", "U+2CB7", "U+2CB9", "U+2CBB", "U+2CBD",
    "U+2CBF", "U+2CC1", "U+2CC3", "U+2CC5", "U+2CC7", "U+2CC9", "U+2CCB", "U+2CCD", "U+2CCF",
    "U+2CD1", "U+2CD3", "U+2CD5", "U+2CD7", "U+2CD9", "U+2CDB", "U+2CDD", "U+2CDF", "U+2CE1",
    "U+2CE3", "U+2CEC", "U+2CEE", "U+2CF3", "U+A641", "U+A643", "U+A645", "U+A647", "U+A649",
    "U+A64B", "U+A64D", "U+A64F", "U+A651", "U+A653", "U+A655", "U+A657", "U+A659", "U+A65B",
    "U+A65D", "U+A65F", "U+A661", "U+A663", "U+A665", "U+A667", "U+A669", "U+A66B", "U+A66D",
    "U+A681", "U+A683", "U+A685", "U+A687", "U+A689", "U+A68B", "U+A68D", "U+A68F", "U+A691",
    "U+A693", "U+A695", "U+A697", "U+A699", "U+A69B", "U+A723", "U+A725", "U+A727", "U+A729",
    "U+A72B", "U+A72D", "U+A72F", "U+A733", "U+A735", "U+A737", "U+A739", "U+A73B", "U+A73D",
    "U+A73F", "U+A741", "U+A743", "U+A745", "U+A747", "U+A749", "U+A74B", "U+A74D", "U+A74F",
    "U+A751", "U+A753", "U+A755", "U+A757", "U+A759", "U+A75B", "U+A75D", "U+A75F", "U+A761",
    "U+A763", "U+A765", "U+A767", "U+A769", "U+A76B", "U+A76D", "U+A76F", "U+A77A", "U+A77C",
    "U+1D79", "U+A77F", "U+A781", "U+A783", "U+A785", "U+A787", "U+A78C", "U+0265", "U+A791",
    "U+A793", "U+A797", "U+A799", "U+A79B", "U+A79D", "U+A79F", "U+A7A1", "U+A7A3", "U+A7A5",
    "U+A7A7", "U+A7A9", "U+0266", "U+025C", "U+0261", "U+026C", "U+026A", "U+029E", "U+0287",
    "U+029D", "U+AB53", "U+A7B5", "U+A7B7", "U+A7B9", "U+A7BB", "U+A7BD", "U+A7BF", "U+A7C1",
    "U+A7C3", "U+A794", "U+0282", "U+1D8E", "U+A7C8", "U+A7CA", "U+A7D1", "U+A7D7", "U+A7D9",
    "U+A7F6", "U+FF41", "U+FF42", "U+FF43", "U+FF44", "U+FF45", "U+FF46", "U+FF47", "U+FF48",
    "U+FF49", "U+FF4A", "U+FF4B", "U+FF4C", "U+FF4D", "U+FF4E", "U+FF4F", "U+FF50", "U+FF51",
    "U+FF52", "U+FF53", "U+FF54", "U+FF55", "U+FF56", "U+FF57", "U+FF58", "U+FF59", "U+FF5A",
    "U+10428", "U+10429", "U+1042A", "U+1042B", "U+1042C", "U+1042D", "U+1042E", "U+1042F",
    "U+10430", "U+10431", "U+10432", "U+10433", "U+10434", "U+10435", "U+10436", "U+10437",
    "U+10438", "U+10439", "U+1043A", "U+1043B", "U+1043C", "U+1043D", "U+1043E", "U+1043F",
    "U+10440", "U+10441", "U+10442", "U+10443", "U+10444", "U+10445", "U+10446", "U+10447",
    "U+10448", "U+10449", "U+1044A", "U+1044B", "U+1044C", "U+1044D", "U+1044E", "U+1044F",
    "U+104D8", "U+104D9", "U+104DA", "U+104DB", "U+104DC", "U+104DD", "U+104DE", "U+104DF",
    "U+104E0", "U+104E1", "U+104E2", "U+104E3", "U+104E4", "U+104E5", "U+104E6", "U+104E7",
    "U+104E8", "U+104E9", "U+104EA", "U+104EB", "U+104EC", "U+104ED", "U+104EE", "U+104EF",
    "U+104F0", "U+104F1", "U+104F2", "U+104F3", "U+104F4", "U+104F5", "U+104F6", "U+104F7",
    "U+104F8", "U+104F9", "U+104FA", "U+104FB", "U+10597", "U+10598", "U+10599", "U+1059A",
    "U+1059B", "U+1059C", "U+1059D", "U+1059E", "U+1059F", "U+105A0", "U+105A1", "U+105A3",
    "U+105A4", "U+105A5", "U+105A6", "U+105A7", "U+105A8", "U+105A9", "U+105AA", "U+105AB",
    "U+105AC", "U+105AD", "U+105AE", "U+105AF", "U+105B0", "U+105B1", "U+105B3", "U+105B4",
    "U+105B5", "U+105B6", "U+105B7", "U+105B8", "U+105B9", "U+105BB", "U+105BC", "U+10CC0",
    "U+10CC1", "U+10CC2", "U+10CC3", "U+10CC4", "U+10CC5", "U+10CC6", "U+10CC7", "U+10CC8",
    "U+10CC9", "U+10CCA", "U+10CCB", "U+10CCC", "U+10CCD", "U+10CCE", "U+10CCF", "U+10CD0",
    "U+10CD1", "U+10CD2", "U+10CD3", "U+10CD4", "U+10CD5", "U+10CD6", "U+10CD7", "U+10CD8",
    "U+10CD9", "U+10CDA", "U+10CDB", "U+10CDC", "U+10CDD", "U+10CDE", "U+10CDF", "U+10CE0",
    "U+10CE1", "U+10CE2", "U+10CE3", "U+10CE4", "U+10CE5", "U+10CE6", "U+10CE7", "U+10CE8",
    "U+10CE9", "U+10CEA", "U+10CEB", "U+10CEC", "U+10CED", "U+10CEE", "U+10CEF", "U+10CF0",
    "U+10CF1", "U+10CF2", "U+118C0", "U+118C1", "U+118C2", "U+118C3", "U+118C4", "U+118C5",
    "U+118C6", "U+118C7", "U+118C8", "U+118C9", "U+118CA", "U+118CB", "U+118CC", "U+118CD",
    "U+118CE", "U+118CF", "U+118D0", "U+118D1", "U+118D2", "U+118D3", "U+118D4", "U+118D5",
    "U+118D6", "U+118D7", "U+118D8", "U+118D9", "U+118DA", "U+118DB", "U+118DC", "U+118DD",
    "U+118DE", "U+118DF", "U+16E60", "U+16E61", "U+16E62", "U+16E63", "U+16E64", "U+16E65",
    "U+16E66", "U+16E67", "U+16E68", "U+16E69", "U+16E6A", "U+16E6B", "U+16E6C", "U+16E6D",
    "U+16E6E", "U+16E6F", "U+16E70", "U+16E71", "U+16E72", "U+16E73", "U+16E74", "U+16E75",
    "U+16E76", "U+16E77", "U+16E78", "U+16E79", "U+16E7A", "U+16E7B", "U+16E7C", "U+16E7D",
    "U+16E7E", "U+16E7F", "U+1E922", "U+1E923", "U+1E924", "U+1E925", "U+1E926", "U+1E927",
    "U+1E928", "U+1E929", "U+1E92A", "U+1E92B", "U+1E92C", "U+1E92D", "U+1E92E", "U+1E92F",
    "U+1E930", "U+1E931", "U+1E932", "U+1E933", "U+1E934", "U+1E935", "U+1E936", "U+1E937",
    "U+1E938", "U+1E939", "U+1E93A", "U+1E93B", "U+1E93C", "U+1E93D", "U+1E93E", "U+1E93F",
    "U+1E940", "U+1E941", "U+1E942", "U+1E943">>

\* The case-ignorable characters, and the cased characters that are not
\* case-ignorable: what the test for a final sigma looks at
CaseIgnorable ==
  {"'", ".", ":", "^", "U+0060", "¨", "­", "¯", "´", "·", "¸", "U+02B0", "U+02B1", "U+02B2",
   "U+02B3", "U+02B4", "U+02B5", "U+02B6", "U+02B7", "U+02B8", "U+02B9", "U+02BA", "U+02BB",
   "U+02BC", "U+02BD", "U+02BE", "U+02BF", "U+02C0", "U+02C1", "U+02C2", "U+02C3", "U+02C4",
   "U+02C5", "U+02C6", "U+02C7", "U+02C8", "U+02C9", "U+02CA", "U+02CB", "U+02CC", "U+02CD",
   "U+02CE", "U+02CF", "U+02D0", "U+02D1", "U+02D2", "U+02D3", "U+02D4", "U+02D5", "U+02D6",
   "U+02D7", "U+02D8", "U+02D9", "U+02DA", "U+02DB", "U+02DC", "U+02DD", "U+02DE", "U+02DF",
   "U+02E0", "U+02E1", "U+02E2", "U+02E3", "U+02E4", "U+02E5", "U+02E6", "U+02E7", "U+02E8",
   "U+02E9", "U+02EA", "U+02EB", "U+02EC", "U+02ED", "U+02EE", "U+02EF", "U+02F0", "U+02F1",
   "U+02F2", "U+02F3", "U+02F4", "U+02F5", "U+02F6", "U+02F7", "U+02F8", "U+02F9", "U+02FA",
   "U+02FB", "U+02FC", "U+02FD", "U+02FE", "U+02FF", "U+0300", "U+0301", "U+0302", "U+0303",
   "U+0304", "U+0305", "U+0306", "U+0307", "U+0308", "U+0309", "U+030A", "U+030B", "U+030C",
   "U+030D", "U+030E", "U+030F", "U+0310", "U+0311", "U+0312", "U+0313", "U+0314", "U+0315",
   "U+0316", "U+0317", "U+0318", "U+0319", "U+031A", "U+031B", "U+031C", "U+031D", "U+031E",
   "U+031F", "U+0320", "U+0321", "U+0322", "U+0323", "U+0324", "U+0325", "U+0326", "U+0327",
   "U+0328", "U+0329", "U+032A", "U+032B", "U+032C", "U+032D", "U+032E", "U+032F", "U+0330",
   "U+0331", "U+0332", "U+0333", "U+0334", "U+0335", "U+0336", "U+0337", "U+0338", "U+0339",
   "U+033A", "U+033B", "U+033C", "U+033D", "U+033E", "U+033F", "U+0340", "U+0341", "U+0342",
   "U+0343", "U+0344", "U+0345", "U+0346", "U+0347", "U+0348", "U+0349", "U+034A", "U+034B",
   "U+034C", "U+034D", "U+034E", "U+034F", "U+0350", "U+0351", "U+0352", "U+0353", "U+0354",
   "U+0355", "U+0356", "U+0357", "U+0358", "U+0359", "U+035A", "U+035B", "U+035C", "U+035D",
   "U+035E", "U+035F", "U+0360", "U+0361", "U+0362", "U+0363", "U+0364", "U+0365", "U+0366",
   "U+0367", "U+0368", "U+0369", "U+036A", "U+036B", "U+036C", "U+036D", "U+036E", "U+036F",
   "U+0374", "U+0375", "U+037A", "U+0384", "U+0385", "U+0387", "U+0483", "U+0484", "U+0485",
   "U+0486", "U+0487", "U+0488", "U+0489", "U+0559", "U+055F", "U+0591", "U+0592", "U+0593",
   "U+0594", "U+0595", "U+0596", "U+0597", "U+0598", "U+0599", "U+059A", "U+059B", "U+059C",
   "U+059D", "U+059E", "U+059F", "U+05A0", "U+05A1", "U+05A2", "U+05A3", "U+05A4", "U+05A5",
   "U+05A6", "U+05A7", "U+05A8", "U+05A9", "U+05AA", "U+05AB", "U+05AC", "U+05AD", "U+05AE",
   "U+05AF", "U+05B0", "U+05B1", "U+05B2", "U+05B3", "U+05B4", "U+05B5", "U+05B6", "U+05B7",
   "U+05B8", "U+05B9", "U+05BA", "U+05BB", "U+05BC", "U+05BD", "U+05BF", "U+05C1", "U+05C2",
   "U+05C4", "U+05C5", "U+05C7", "U+05F4", "U+0600", "U+0601", "U+0602", "U+0603", "U+0604",
   "U+0605", "U+0610", "U+0611", "U+0612", "U+0613", "U+0614", "U+0615", "U+0616", "U+0617",
   "U+0618", "U+0619", "U+061A", "U+061C", "U+0640", "U+064B", "U+064C", "U+064D", "U+064E",
   "U+064F", "U+0650", "U+0651", "U+0652", "U+0653", "U+0654", "U+0655", "U+0656", "U+0657",
   "U+0658", "U+0659", "U+065A", "U+065B", "U+065C", "U+065D", "U+065E", "U+065F", "U+0670",
   "U+06D6", "U+06D7", "U+06D8", "U+06D9", "U+06DA", "U+06DB", "U+06DC", "U+06DD", "U+06DF",
   "U+06E0", "U+06E1", "U+06E2", "U+06E3", "U+06E4", "U+06E5", "U+06E6", "U+06E7", "U+06E8",
   "U+06EA", "U+06EB", "U+06EC", "U+06ED", "U+070F", "U+0711", "U+0730", "U+0731", "U+0732",
   "U+0733", "U+0734", "U+0735", "U+0736", "U+0737", "U+0738", "U+0739", "U+073A", "U+073B",
   "U+073C", "U+073D", "U+073E", "U+073F", "U+0740", "U+0741", "U+0742", "U+0743", "U+0744",
   "U+0745", "U+0746", "U+0747", "U+0748", "U+0749", "U+074A", "U+07A6", "U+07A7", "U+07A8",
   "U+07A9", "U+07AA", "U+07AB", "U+07AC", "U+07AD", "U+07AE", "U+07AF", "U+07B0", "U+07EB",
   "U+07EC", "U+07ED", "U+07EE", "U+07EF", "U+07F0", "U+07F1", "U+07F2", "U+07F3", "U+07F4",
   "U+07F5", "U+07FA", "U+07FD", "U+0816", "U+0817", "U+0818", "U+0819", "U+081A", "U+081B",
   "U+081C", "U+081D", "U+081E", "U+081F", "U+0820", "U+0821", "U+0822", "U+0823", "U+0824",
   "U+0825", "U+0826", "U+0827", "U+0828", "U+0829", "U+082A", "U+082B", "U+082C", "U+082D",
   "U+0859", "U+085A", "U+085B", "U+0888", "U+0890", "U+0891", "U+0898", "U+0899", "U+089A",
   "U+089B", "U+089C", "U+089D", "U+089E", "U+089F", "U+08C9", "U+08CA", "U+08CB", "U+08CC",
   "U+08CD", "U+08CE", "U+08CF", "U+08D0", "U+08D1", "U+08D2", "U+08D3", "U+08D4", "U+08D5",
   "U+08D6", "U+08D7", "U+08D8", "U+08D9", "U+08DA", "U+08DB", "U+08DC", "U+08DD", "U+08DE",
   "U+08DF", "U+08E0", "U+08E1", "U+08E2", "U+08E3", "U+08E4", "U+08E5", "U+08E6", "U+08E7",
   "U+08E8", "U+08E9", "U+08EA", "U+08EB", "U+08EC", "U+08ED", "U+08EE", "U+08EF", "U+08F0",
   "U+08F1", "U+08F2", "U+08F3", "U+08F4", "U+08F5", "U+08F6", "U+08F7", "U+08F8", "U+08F9",
   "U+08FA", "U+08FB", "U+08FC", "U+08FD", "U+08FE", "U+08FF", "U+0900", "U+0901", "U+0902",
   "U+093A", "U+093C", "U+0941", "U+0942", "U+0943", "U+0944", "U+0945", "U+0946", "U+0947",
   "U+0948", "U+094D", "U+0951", "U+0952", "U+0953", "U+0954", "U+0955", "U+0956", "U+0957",
   "U+0962", "U+0963", "U+0971", "U+0981", "U+09BC", "U+09C1", "U+09C2", "U+09C3", "U+09C4",
   "U+09CD", "U+09E2", "U+09E3", "U+09FE", "U+0A01", "U+0A02", "U+0A3C", "U+0A41", "U+0A42",
   "U+0A47", "U+0A48", "U+0A4B", "U+0A4C", "U+0A4D", "U+0A51", "U+0A70", "U+0A71", "U+0A75",
   "U+0A81", "U+0A82", "U+0ABC", "U+0AC1", "U+0AC2", "U+0AC3", "U+0AC4", "U+0AC5", "U+0AC7",
   "U+0AC8", "U+0ACD", "U+0AE2", "U+0AE3", "U+0AFA", "U+0AFB", "U+0AFC", "U+0AFD", "U+0AFE",
   "U+0AFF", "U+0B01", "U+0B3C", "U+0B3F", "U+0B41", "U+0B42", "U+0B43", "U+0B44", "U+0B4D",
   "U+0B55", "U+0B56", "U+0B62", "U+0B63", "U+0B82", "U+0BC0", "U+0BCD", "U+0C00", "U+0C04",
   "U+0C3C", "U+0C3E", "U+0C3F", "U+0C40", "U+0C46", "U+0C47", "U+0C48", "U+0C4A", "U+0C4B",
   "U+0C4C", "U+0C4D", "U+0C55", "U+0C56", "U+0C62", "U+0C63", "U+0C81", "U+0CBC", "U+0CBF",
   "U+0CC6", "U+0CCC", "U+0CCD", "U+0CE2", "U+0CE3", "U+0D00", "U+0D01", "U+0D3B", "U+0D3C",
   "U+0D41", "U+0D42", "U+0D43", "U+0D44", "U+0D4D", "U+0D62", "U+0D63", "U+0D81", "U+0DCA",
   "U+0DD2", "U+0DD3", "U+0DD4", "U+0DD6", "U+0E31", "U+0E34", "U+0E35", "U+0E36", "U+0E37",
   "U+0E38", "U+0E39", "U+0E3A", "U+0E46", "U+0E47", "U+0E48", "U+0E49", "U+0E4A", "U+0E4B",
   "U+0E4C", "U+0E4D", "U+0E4E", "U+0EB1", "U+0EB4", "U+0EB5", "U+0EB6", "U+0EB7", "U+0EB8",
   "U+0EB9", "U+0EBA", "U+0EBB", "U+0EBC", "U+0EC6", "U+0EC8", "U+0EC9", "U+0ECA", "U+0ECB",
   "U+0ECC", "U+0ECD", "U+0F18", "U+0F19", "U+0F35", "U+0F37", "U+0F39", "U+0F71", "U+0F72",
   "U+0F73", "U+0F74", "U+0F75", "U+0F76", "U+0F77", "U+0F78", "U+0F79", "U+0F7A", "U+0F7B",
   "U+0F7C", "U+0F7D", "U+0F7E", "U+0F80", "U+0F81", "U+0F82", "U+0F83", "U+0F84", "U+0F86",
   "U+0F87", "U+0F8D", "U+0F8E", "U+0F8F", "U+0F90", "U+0F91", "U+0F92", "U+0F93", "U+0F94",
   "U+0F95", "U+0F96", "U+0F97", "U+0F99", "U+0F9A", "U+0F9B", "U+0F9C", "U+0F9D", "U+0F9E",
   "U+0F9F", "U+0FA0", "U+0FA1", "U+0FA2", "U+0FA3", "U+0FA4", "U+0FA5", "U+0FA6", "U+0FA7",
   "U+0FA8", "U+0FA9", "U+0FAA", "U+0FAB", "U+0FAC", "U+0FAD", "U+0FAE", "U+0FAF", "U+0FB0",
   "U+0FB1", "U+0FB2", "U+0FB3", "U+0FB4", "U+0FB5", "U+0FB6", "U+0FB7", "U+0FB8", "U+0FB9",
   "U+0FBA", "U+0FBB", "U+0FBC", "U+0FC6", "U+102D", "U+102E", "U+102F", "U+1030", "U+1032",
   "U+1033", "U+1034", "U+1035", "U+1036", "U+1037", "U+1039", "U+103A", "U+103D", "U+103E",
   "U+1058", "U+1059", "U+105E", "U+105F", "U+1060", "U+1071", "U+1072", "U+1073", "U+1074",
   "U+1082", "U+1085", "U+1086", "U+108D", "U+109D", "U+10FC", "U+135D", "U+135E", "U+135F",
   "U+1712", "U+1713", "U+1714", "U+1732", "U+1733", "U+1752", "U+1753", "U+1772", "U+1773",
   "U+17B4", "U+17B5", "U+17B7", "U+17B8", "U+17B9", "U+17BA", "U+17BB", "U+17BC", "U+17BD",
   "U+17C6", "U+17C9", "U+17CA", "U+17CB", "U+17CC", "U+17CD", "U+17CE", "U+17CF", "U+17D0",
   "U+17D1", "U+17D2", "U+17D3", "U+17D7", "U+17DD", "U+180B", "U+180C", "U+180D", "U+180E",
   "U+180F", "U+1843", "U+1885", "U+1886", "U+18A9", "U+1920", "U+1921", "U+1922", "U+1927",
   "U+1928", "U+1932", "U+1939", "U+193A", "U+193B", "U+1A17", "U+1A18", "U+1A1B", "U+1A56",
   "U+1A58", "U+1A59", "U+1A5A", "U+1A5B", "U+1A5C", "U+1A5D", "U+1A5E", "U+1A60", "U+1A62",
   "U+1A65", "U+1A66", "U+1A67", "U+1A68", "U+1A69", "U+1A6A", "U+1A6B", "U+1A6C", "U+1A73",
   "U+1A74", "U+1A75", "U+1A76", "U+1A77", "U+1A78", "U+1A79", "U+1A7A", "U+1A7B", "U+1A7C",
   "U+1A7F", "U+1AA7", "U+1AB0", "U+1AB1", "U+1AB2", "U+1AB3", "U+1AB4", "U+1AB5", "U+1AB6",
   "U+1AB7", "U+1AB8", "U+1AB9", "U+1ABA", "U+1ABB", "U+1ABC", "U+1ABD", "U+1ABE", "U+1ABF",
   "U+1AC0", "U+1AC1", "U+1AC2", "U+1AC3", "U+1AC4", "U+1AC5", "U+1AC6", "U+1AC7", "U+1AC8",
   "U+1AC9", "U+1ACA", "U+1ACB", "U+1ACC", "U+1ACD", "U+1ACE", "U+1B00", "U+1B01", "U+1B02",
   "U+1B03", "U+1B34", "U+1B36", "U+1B37", "U+1B38", "U+1B39", "U+1B3A", "U+1B3C", "U+1B42",
   "U+1B6B", "U+1B6C", "U+1B6D", "U+1B6E", "U+1B6F", "U+1B70", "U+1B71", "U+1B72", "U+1B73",
   "U+1B80", "U+1B81", "U+1BA2", "U+1BA3", "U+1BA4", "U+1BA5", "U+1BA8", "U+1BA9", "U+1BAB",
   "U+1BAC", "U+1BAD", "U+1BE6", "U+1BE8", "U+1BE9", "U+1BED", "U+1BEF", "U+1BF0", "U+1BF1",
   "U+1C2C", "U+1C2D", "U+1C2E", "U+1C2F", "U+1C30", "U+1C31", "U+1C32", "U+1C33", "U+1C36",
   "U+1C37", "U+1C78", "U+1C79", "U+1C7A", "U+1C7B", "U+1C7C", "U+1C7D", "U+1CD0", "U+1CD1",
   "U+1CD2", "U+1CD4", "U+1CD5", "U+1CD6", "U+1CD7", "U+1CD8", "U+1CD9", "U+1CDA", "U+1CDB",
   "U+1CDC", "U+1CDD", "U+1CDE", "U+1CDF", "U+1CE0", "U+1CE2", "U+1CE3", "U+1CE4", "U+1CE5",
   "U+1CE6", "U+1CE7", "U+1CE8", "U+1CED", "U+1CF4", "U+1CF8", "U+1CF9", "U+1D2C", "U+1D2D",
   "U+1D2E", "U+1D2F", "U+1D30", "U+1D31", "U+1D32", "U+1D33", "U+1D34", "U+1D35", "U+1D36",
   "U+1D37", "U+1D38", "U+1D39", "U+1D3A", "U+1D3B", "U+1D3C", "U+1D3D", "U+1D3E", "U+1D3F",
   "U+1D40", "U+1D41", "U+1D42", "U+1D43", "U+1D44", "U+1D45", "U+1D46", "U+1D47", "U+1D48",
   "U+1D49", "U+1D4A", "U+1D4B", "U+1D4C", "U+1D4D", "U+1D4E", "U+1D4F", "U+1D50", "U+1D51",
   "U+1D52", "U+1D53", "U+1D54", "U+1D55", "U+1D56", "U+1D57", "U+1D58", "U+1D59", "U+1D5A",
   "U+1D5B", "U+1D5C", "U+1D5D", "U+1D5E", "U+1D5F", "U+1D60", "U+1D61", "U+1D62", "U+1D63",
   "U+1D64", "U+1D65", "U+1D66", "U+1D67", "U+1D68", "U+1D69", "U+1D6A", "U+1D78", "U+1D9B",
   "U+1D9C", "U+1D9D", "U+1D9E", "U+1D9F", "U+1DA0", "U+1DA1", "U+1DA2", "U+1DA3", "U+1DA4",
   "U+1DA5", "U+1DA6", "U+1DA7", "U+1DA8", "U+1DA9", "U+1DAA", "U+1DAB", "U+1DAC", "U+1DAD",
   "U+1DAE", "U+1DAF", "U+1DB0", "U+1DB1", "U+1DB2", "U+1DB3", "U+1DB4", "U+1DB5", "U+1DB6",
   "U+1DB7", "U+1DB8", "U+1DB9", "U+1DBA", "U+1DBB", "U+1DBC", "U+1DBD", "U+1DBE", "U+1DBF",
   "U+1DC0", "U+1DC1", "U+1DC2", "U+1DC3", "U+1DC4", "U+1DC5", "U+1DC6", "U+1DC7", "U+1DC8",
   "U+1DC9", "U+1DCA", "U+1DCB", "U+1DCC", "U+1DCD", "U+1DCE", "U+1DCF", "U+1DD0", "U+1DD1",
   "U+1DD2", "U+1DD3", "U+1DD4", "U+1DD5", "U+1DD6", "U+1DD7", "U+1DD8", "U+1DD9", "U+1DDA",
   "U+1DDB", "U+1DDC", "U+1DDD", "U+1DDE", "U+1DDF", "U+1DE0", "U+1DE1", "U+1DE2", "U+1DE3",
   "U+1DE4", "U+1DE5", "U+1DE6", "U+1DE7", "U+1DE8", "U+1DE9", "U+1DEA", "U+1DEB", "U+1DEC",
   "U+1DED", "U+1DEE", "U+1DEF", "U+1DF0", "U+1DF1", "U+1DF2", "U+1DF3", "U+1DF4", "U+1DF5",
   "U+1DF6", "U+1DF7", "U+1DF8", "U+1DF9", "U+1DFA", "U+1DFB", "U+1DFC", "U+1DFD", "U+1DFE",
   "U+1DFF", "U+1FBD", "U+1FBF", "U+1FC0", "U+1FC1", "U+1FCD", "U+1FCE", "U+1FCF", "U+1FDD",
   "U+1FDE", "U+1FDF", "U+1FED", "U+1FEE", "U+1FEF", "U+1FFD", "U+1FFE", "U+200B", "U+200C",
   "U+200D", "U+200E", "U+200F", "U+2018", "U+2019", "U+2024", "U+2027", "U+202A", "U+202B",
   "U+202C", "U+202D", "U+202E", "U+2060", "U+2061", "U+2062", "U+2063", "U+2064", "U+2066",
   "U+2067", "U+2068", "U+2069", "U+206A", "U+206B", "U+206C", "U+206D", "U+206E", "U+206F",
   "U+2071", "U+207F", "U+2090", "U+2091", "U+2092", "U+2093", "U+2094", "U+2095", "U+2096",
   "U+2097", "U+2098", "U+2099", "U+209A", "U+209B", "U+209C", "U+20D0", "U+20D1", "U+20D2",
   "U+20D3", "U+20D4", "U+20D5", "U+20D6", "U+20D7", "U+20D8", "U+20D9", "U+20DA", "U+20DB",
   "U+20DC", "U+20DD", "U+20DE", "U+20DF", "U+20E0", "U+20E1", "U+20E2", "U+20E3", "U+20E4",
   "U+20E5", "U+20E6", "U+20E7", "U+20E8", "U+20E9", "U+20EA", "U+20EB", "U+20EC", "U+20ED",
   "U+20EE", "U+20EF", "U+20F0", "U+2C7C", "U+2C7D", "U+2CEF", "U+2CF0", "U+2CF1", "U+2D6F",
   "U+2D7F", "U+2DE0", "U+2DE1", "U+2DE2", "U+2DE3", "U+2DE4", "U+2DE5", "U+2DE6", "U+2DE7",
   "U+2DE8", "U+2DE9", "U+2DEA", "U+2DEB", "U+2DEC", "U+2DED", "U+2DEE", "U+2DEF", "U+2DF0",
   "U+2DF1", "U+2DF2", "U+2DF3", "U+2DF4", "U+2DF5", "U+2DF6", "U+2DF7", "U+2DF8", "U+2DF9",
   "U+2DFA", "U+2DFB", "U+2DFC", "U+2DFD", "U+2DFE", "U+2DFF", "U+2E2F", "U+3005", "U+302A",
   "U+302B", "U+302C", "U+302D", "U+3031", "U+3032", "U+3033", "U+3034", "U+3035", "U+303B",
   "U+3099", "U+309A", "U+309B", "U+309C", "U+309D", "U+309E", "U+30FC", "U+30FD", "U+30FE",
   "U+A015", "U+A4F8", "U+A4F9", "U+A4FA", "U+A4FB", "U+A4FC", "U+A4FD", "U+A60C", "U+A66F",
   "U+A670", "U+A671", "U+A672", "U+A674", "U+A675", "U+A676", "U+A677", "U+A678", "U+A679",
   "U+A67A", "U+A67B", "U+A67C", "U+A67D", "U+A67F", "U+A69C", "U+A69D", "U+A69E", "U+A69F",
   "U+A6F0", "U+A6F1", "U+A700", "U+A701", "U+A702", "U+A703", "U+A704", "U+A705", "U+A706",
   "U+A707", "U+A708", "U+A709", "U+A70A", "U+A70B", "U+A70C", "U+A70D", "U+A70E", "U+A70F",
   "U+A710", "U+A711", "U+A712", "U+A713", "U+A714", "U+A715", "U+A716", "U+A717", "U+A718",
   "U+A719", "U+A71A", "U+A71B", "U+A71C", "U+A71D", "U+A71E", "U+A71F", "U+A720", "U+A721",
   "U+A770", "U+A788", "U+A789", "U+A78A", "U+A7F2", "U+A7F3", "U+A7F4", "U+A7F8", "U+A7F9",
   "U+A802", "U+A806", "U+A80B", "U+A825", "U+A826", "U+A82C", "U+A8C4", "U+A8C5", "U+A8E0",
   "U+A8E1", "U+A8E2", "U+A8E3", "U+A8E4", "U+A8E5", "U+A8E6", "U+A8E7", "U+A8E8", "U+A8E9",
   "U+A8EA", "U+A8EB", "U+A8EC", "U+A8ED", "U+A8EE", "U+A8EF", "U+A8F0", "U+A8F1", "U+A8FF",
   "U+A926", "U+A927", "U+A928", "U+A929", "U+A92A", "U+A92B", "U+A92C", "U+A92D", "U+A947",
   "U+A948", "U+A949", "U+A94A", "U+A94B", "U+A94C", "U+A94D", "U+A94E", "U+A94F", "U+A950",
   "U+A951", "U+A980", "U+A981", "U+A982", "U+A9B3", "U+A9B6", "U+A9B7", "U+A9B8", "U+A9B9",
   "U+A9BC", "U+A9BD", "U+A9CF", "U+A9E5", "U+A9E6", "U+AA29", "U+AA2A", "U+AA2B", "U+AA2C",
   "U+AA2D", "U+AA2E", "U+AA31", "U+AA32", "U+AA35", "U+AA36", "U+AA43", "U+AA4C", "U+AA70",
   "U+AA7C", "U+AAB0", "U+AAB2", "U+AAB3", "U+AAB4", "U+AAB7", "U+AAB8", "U+AABE", "U+AABF",
   "U+AAC1", "U+AADD", "U+AAEC", "U+AAED", "U+AAF3", "U+AAF4", "U+AAF6", "U+AB5B", "U+AB5C",
   "U+AB5D", "U+AB5E", "U+AB5F", "U+AB69", "U+AB6A", "U+AB6B", "U+ABE5", "U+ABE8", "U+ABED",
   "U+FB1E", "U+FBB2", "U+FBB3", "U+FBB4", "U+FBB5", "U+FBB6", "U+FBB7", "U+FBB8", "U+FBB9",
   "U+FBBA", "U+FBBB", "U+FBBC", "U+FBBD", "U+FBBE", "U+FBBF", "U+FBC0", "U+FBC1", "U+FBC2",
   "U+FE00", "U+FE01", "U+FE02", "U+FE03", "U+FE04", "U+FE05", "U+FE06", "U+FE07", "U+FE08",
   "U+FE09", "U+FE0A", "U+FE0B", "U+FE0C", "U+FE0D", "U+FE0E", "U+FE0F", "U+FE13", "U+FE20",
   "U+FE21", "U+FE22", "U+FE23", "U+FE24", "U+FE25", "U+FE26", "U+FE27", "U+FE28", "U+FE29",
   "U+FE2A", "U+FE2B", "U+FE2C", "U+FE2D", "U+FE2E", "U+FE2F", "U+FE52", "U+FE55", "U+FEFF",
   "U+FF07", "U+FF0E", "U+FF1A", "U+FF3E", "U+FF40", "U+FF70", "U+FF9E", "U+FF9F", "U+FFE3",
   "U+FFF9", "U+FFFA", "U+FFFB", "U+101FD", "U+102E0", "U+10376", "U+10377", "U+10378",
   "U+10379", "U+1037A", "U+10780", "U+10781", "U+10782", "U+10783", "U+10784", "U+10785",
   "U+10787", "U+10788", "U+10789", "U+1078A", "U+1078B", "U+1078C", "U+1078D", "U+1078E",
   "U+1078F", "U+10790", "U+10791", "U+10792", "U+10793", "U+10794", "U+10795", "U+10796",
   "U+10797", "U+10798", "U+10799", "U+1079A", "U+1079B", "U+1079C", "U+1079D", "U+1079E",
   "U+1079F", "U+107A0", "U+107A1", "U+107A2", "U+107A3", "U+107A4", "U+107A5", "U+107A6",
   "U+107A7", "U+107A8", "U+107A9", "U+107AA", "U+107AB", "U+107AC", "U+107AD", "U+107AE",
   "U+107AF", "U+107B0", "U+107B2", "U+107B3", "U+107B4", "U+107B5", "U+107B6", "U+107B7",
   "U+107B8", "U+107B9", "U+107BA", "U+10A01", "U+10A02", "U+10A03", "U+10A05", "U+10A06",
   "U+10A0C", "U+10A0D", "U+10A0E", "U+10A0F", "U+10A38", "U+10A39", "U+10A3A", "U+10A3F",
   "U+10AE5", "U+10AE6", "U+10D24", "U+10D25", "U+10D26", "U+10D27", "U+10EAB", "U+10EAC",
   "U+10F46", "U+10F47", "U+10F48", "U+10F49", "U+10F4A", "U+10F4B", "U+10F4C", "U+10F4D",
   "U+10F4E", "U+10F4F", "U+10F50", "U+10F82", "U+10F83", "U+10F84", "U+10F85", "U+11001",
   "U+11038", "U+11039", "U+1103A", "U+1103B", "U+1103C", "U+1103D", "U+1103E", "U+1103F",
   "U+11040", "U+11041", "U+11042", "U+11043", "U+11044", "U+11045", "U+11046", "U+11070",
   "U+11073", "U+11074", "U+1107F", "U+11080", "U+11081", "U+110B3", "U+110B4", "U+110B5",
   "U+110B6", "U+110B9", "U+110BA", "U+110BD", "U+110C2", "U+110CD", "U+11100", "U+11101",
   "U+11102", "U+11127", "U+11128", "U+11129", "U+1112A", "U+1112B", "U+1112D", "U+1112E",
   "U+1112F", "U+11130", "U+11131", "U+11132", "U+11133", "U+11134", "U+11173", "U+11180",
   "U+11181", "U+111B6", "U+111B7", "U+111B8", "U+111B9", "U+111BA", "U+111BB", "U+111BC",
   "U+111BD", "U+111BE", "U+111C9", "U+111CA", "U+111CB", "U+111CC", "U+111CF", "U+1122F",
   "U+11230", "U+11231", "U+11234", "U+11236", "U+11237", "U+1123E", "U+112DF", "U+112E3",
   "U+112E4", "U+112E5", "U+112E6", "U+112E7", "U+112E8", "U+112E9", "U+112EA", "U+11300",
   "U+11301", "U+1133B", "U+1133C", "U+11340", "U+11366", "U+11367", "U+11368", "U+11369",
   "U+1136A", "U+1136B", "U+1136C", "U+11370", "U+11371", "U+11372", "U+11373", "U+11374",
   "U+11438", "U+11439", "U+1143A", "U+1143B", "U+1143C", "U+1143D", "U+1143E", "U+1143F",
   "U+11442", "U+11443", "U+11444", "U+11446", "U+1145E", "U+114B3", "U+114B4", "U+114B5",
   "U+114B6", "U+114B7", "U+114B8", "U+114BA", "U+114BF", "U+114C0", "U+114C2", "U+114C3",
   "U+115B2", "U+115B3", "U+115B4", "U+115B5", "U+115BC", "U+115BD", "U+115BF", "U+115C0",
   "U+115DC", "U+115DD", "U+11633", "U+11634", "U+11635", "U+11636", "U+11637", "U+11638",
   "U+11639", "U+1163A", "U+1163D", "U+1163F", "U+11640", "U+116AB", "U+116AD", "U+116B0",
   "U+116B1", "U+116B2", "U+116B3", "U+116B4", "U+116B5", "U+116B7", "U+1171D", "U+1171E",
   "U+1171F", "U+11722", "U+11723", "U+11724", "U+11725", "U+11727", "U+11728", "U+11729",
   "U+1172A", "U+1172B", "U+1182F", "U+11830", "U+11831", "U+11832", "U+11833", "U+11834",
   "U+11835", "U+11836", "U+11837", "U+11839", "U+1183A", "U+1193B", "U+1193C", "U+1193E",
   "U+11943", "U+119D4", "U+119D5", "U+119D6", "U+119D7", "U+119DA", "U+119DB", "U+119E0",
   "U+11A01", "U+11A02", "U+11A03", "U+11A04", "U+11A05", "U+11A06", "U+11A07", "U+11A08",
   "U+11A09", "U+11A0A", "U+11A33", "U+11A34", "U+11A35", "U+11A36", "U+11A37", "U+11A38",
   "U+11A3B", "U+11A3C", "U+11A3D", "U+11A3E", "U+11A47", "U+11A51", "U+11A52", "U+11A53",
   "U+11A54", "U+11A55", "U+11A56", "U+11A59", "U+11A5A", "U+11A5B", "U+11A8A", "U+11A8B",
   "U+11A8C", "U+11A8D", "U+11A8E", "U+11A8F", "U+11A90", "U+11A91", "U+11A92", "U+11A93",
   "U+11A94", "U+11A95", "U+11A96", "U+11A98", "U+11A99", "U+11C30", "U+11C31", "U+11C32",
   "U+11C33", "U+11C34", "U+11C35", "U+11C36", "U+11C38", "U+11C39", "U+11C3A", "U+11C3B",
   "U+11C3C", "U+11C3D", "U+11C3F", "U+11C92", "U+11C93", "U+11C94", "U+11C95", "U+11C96",
   "U+11C97", "U+11C98", "U+11C99", "U+11C9A", "U+11C9B", "U+11C9C", "U+11C9D", "U+11C9E",
   "U+11C9F", "U+11CA0", "U+11CA1", "U+11CA2", "U+11CA3", "U+11CA4", "U+11CA5", "U+11CA6",
   "U+11CA7", "U+11CAA", "U+11CAB", "U+11CAC", "U+11CAD", "U+11CAE", "U+11CAF", "U+11CB0",
   "U+11CB2", "U+11CB3", "U+11CB5", "U+11CB6", "U+11D31", "U+11D32", "U+11D33", "U+11D34",
   "U+11D35", "U+11D36", "U+11D3A", "U+11D3C", "U+11D3D", "U+11D3F", "U+11D40", "U+11D41",
   "U+11D42", "U+11D43", "U+11D44", "U+11D45", "U+11D47", "U+11D90", "U+11D91", "U+11D95",
   "U+11D97", "U+11EF3", "U+11EF4", "U+13430", "U+13431", "U+13432", "U+13433", "U+13434",
   "U+13435", "U+13436", "U+13437", "U+13438", "U+16AF0", "U+16AF1", "U+16AF2", "U+16AF3",
   "U+16AF4", "U+16B30", "U+16B31", "U+16B32", "U+16B33", "U+16B34", "U+16B35", "U+16B36",
   "U+16B40", "U+16B41", "U+16B42", "U+16B43", "U+16F4F", "U+16F8F", "U+16F90", "U+16F91",
   "U+16F92", "U+16F93", "U+16F94", "U+16F95", "U+16F96", "U+16F97", "U+16F98", "U+16F99",
   "U+16F9A", "U+16F9B", "U+16F9C", "U+16F9D", "U+16F9E", "U+16F9F", "U+16FE0", "U+16FE1",
   "U+16FE3", "U+16FE4", "U+1AFF0", "U+1AFF1", "U+1AFF2", "U+1AFF3", "U+1AFF5", "U+1AFF6",
   "U+1AFF7", "U+1AFF8", "U+1AFF9", "U+1AFFA", "U+1AFFB", "U+1AFFD", "U+1AFFE", "U+1BC9D",
   "U+1BC9E", "U+1BCA0", "U+1BCA1", "U+1BCA2", "U+1BCA3", "U+1CF00", "U+1CF01", "U+1CF02",
   "U+1CF03", "U+1CF04", "U+1CF05", "U+1CF06", "U+1CF07", "U+1CF08", "U+1CF09", "U+1CF0A",
   "U+1CF0B", "U+1CF0C", "U+1CF0D", "U+1CF0E", "U+1CF0F", "U+1CF10", "U+1CF11", "U+1CF12",
   "U+1CF13", "U+1CF14", "U+1CF15", "U+1CF16", "U+1CF17", "U+1CF18", "U+1CF19", "U+1CF1A",
   "U+1CF1B", "U+1CF1C", "U+1CF1D", "U+1CF1E", "U+1CF1F", "U+1CF20", "U+1CF21", "U+1CF22",
   "U+1CF23", "U+1CF24", "U+1CF25", "U+1CF26", "U+1CF27", "U+1CF28", "U+1CF29", "U+1CF2A",
   "U+1CF2B", "U+1CF2C", "U+1CF2D", "U+1CF30", "U+1CF31", "U+1CF32", "U+1CF33", "U+1CF34",
   "U+1CF35", "U+1CF36", "U+1CF37", "U+1CF38", "U+1CF39", "U+1CF3A", "U+1CF3B", "U+1CF3C",
   "U+1CF3D", "U+1CF3E", "U+1CF3F", "U+1CF40", "U+1CF41", "U+1CF42", "U+1CF43", "U+1CF44",
   "U+1CF45", "U+1CF46", "U+1D167", "U+1D168", "U+1D169", "U+1D173", "U+1D174", "U+1D175",
   "U+1D176", "U+1D177", "U+1D178", "U+1D179", "U+1D17A", "U+1D17B", "U+1D17C", "U+1D17D",
   "U+1D17E", "U+1D17F", "U+1D180", "U+1D181", "U+1D182", "U+1D185", "U+1D186", "U+1D187",
   "U+1D188", "U+1D189", "U+1D18A", "U+1D18B", "U+1D1AA", "U+1D1AB", "U+1D1AC", "U+1D1AD",
   "U+1D242", "U+1D243", "U+1D244", "U+1DA00", "U+1DA01", "U+1DA02", "U+1DA03", "U+1DA04",
   "U+1DA05", "U+1DA06", "U+1DA07", "U+1DA08", "U+1DA09", "U+1DA0A", "U+1DA0B", "U+1DA0C",
   "U+1DA0D", "U+1DA0E", "U+1DA0F", "U+1DA10", "U+1DA11", "U+1DA12", "U+1DA13", "U+1DA14",
   "U+1DA15", "U+1DA16", "U+1DA17", "U+1DA18", "U+1DA19", "U+1DA1A", "U+1DA1B", "U+1DA1C",
   "U+1DA1D", "U+1DA1E", "U+1DA1F", "U+1DA20", "U+1DA21", "U+1DA22", "U+1DA23", "U+1DA24",
   "U+1DA25", "U+1DA26", "U+1DA27", "U+1DA28", "U+1DA29", "U+1DA2A", "U+1DA2B", "U+1DA2C",
   "U+1DA2D", "U+1DA2E", "U+1DA2F", "U+1DA30", "U+1DA31", "U+1DA32", "U+1DA33", "U+1DA34",
   "U+1DA35", "U+1DA36", "U+1DA3B", "U+1DA3C", "U+1DA3D", "U+1DA3E", "U+1DA3F", "U+1DA40",
   "U+1DA41", "U+1DA42", "U+1DA43", "U+1DA44", "U+1DA45", "U+1DA46", "U+1DA47", "U+1DA48",
   "U+1DA49", "U+1DA4A", "U+1DA4B", "U+1DA4C", "U+1DA4D", "U+1DA4E", "U+1DA4F", "U+1DA50",
   "U+1DA51", "U+1DA52", "U+1DA53", "U+1DA54", "U+1DA55", "U+1DA56", "U+1DA57", "U+1DA58",
   "U+1DA59", "U+1DA5A", "U+1DA5B", "U+1DA5C", "U+1DA5D", "U+1DA5E", "U+1DA5F", "U+1DA60",
   "U+1DA61", "U+1DA62", "U+1DA63", "U+1DA64", "U+1DA65", "U+1DA66", "U+1DA67", "U+1DA68",
   "U+1DA69", "U+1DA6A", "U+1DA6B", "U+1DA6C", "U+1DA75", "U+1DA84", "U+1DA9B", "U+1DA9C",
   "U+1DA9D", "U+1DA9E", "U+1DA9F", "U+1DAA1", "U+1DAA2", "U+1DAA3", "U+1DAA4", "U+1DAA5",
   "U+1DAA6", "U+1DAA7", "U+1DAA8", "U+1DAA9", "U+1DAAA", "U+1DAAB", "U+1DAAC", "U+1DAAD",
   "U+1DAAE", "U+1DAAF", "U+1E000", "U+1E001", "U+1E002", "U+1E003", "U+1E004", "U+1E005",
   "U+1E006", "U+1E008", "U+1E009", "U+1E00A", "U+1E00B", "U+1E00C", "U+1E00D", "U+1E00E",
   "U+1E00F", "U+1E010", "U+1E011", "U+1E012", "U+1E013", "U+1E014", "U+1E015", "U+1E016",
   "U+1E017", "U+1E018", "U+1E01B", "U+1E01C", "U+1E01D", "U+1E01E", "U+1E01F", "U+1E020",
   "U+1E021", "U+1E023", "U+1E024", "U+1E026", "U+1E027", "U+1E028", "U+1E029", "U+1E02A",
   "U+1E130", "U+1E131", "U+1E132", "U+1E133", "U+1E134", "U+1E135", "U+1E136", "U+1E137",
   "U+1E138", "U+1E139", "U+1E13A", "U+1E13B", "U+1E13C", "U+1E13D", "U+1E2AE", "U+1E2EC",
   "U+1E2ED", "U+1E2EE", "U+1E2EF", "U+1E8D0", "U+1E8D1", "U+1E8D2", "U+1E8D3", "U+1E8D4",
   "U+1E8D5", "U+1E8D6", "U+1E944", "U+1E945", "U+1E946", "U+1E947", "U+1E948", "U+1E949",
   "U+1E94A", "U+1E94B", "U+1F3FB", "U+1F3FC", "U+1F3FD", "U+1F3FE", "U+1F3FF", "U+E0001",
   "U+E0020", "U+E0021", "U+E0022", "U+E0023", "U+E0024", "U+E0025", "U+E0026", "U+E0027",
   "U+E0028", "U+E0029", "U+E002A", "U+E002B", "U+E002C", "U+E002D", "U+E002E", "U+E002F",
   "U+E0030", "U+E0031", "U+E0032", "U+E0033", "U+E0034", "U+E0035", "U+E0036", "U+E0037",
   "U+E0038", "U+E0039", "U+E003A", "U+E003B", "U+E003C", "U+E003D", "U+E003E", "U+E003F",
   "U+E0040", "U+E0041", "U+E0042", "U+E0043", "U+E0044", "U+E0045", "U+E0046", "U+E0047",
   "U+E0048", "U+E0049", "U+E004A", "U+E004B", "U+E004C", "U+E004D", "U+E004E", "U+E004F",
   "U+E0050", "U+E0051", "U+E0052", "U+E0053", "U+E0054", "U+E0055", "U+E0056", "U+E0057",
   "U+E0058", "U+E0059", "U+E005A", "U+E005B", "U+E005C", "U+E005D", "U+E005E", "U+E005F",
   "U+E0060", "U+E0061", "U+E0062", "U+E0063", "U+E0064", "U+E0065", "U+E0066", "U+E0067",
   "U+E0068", "U+E0069", "U+E006A", "U+E006B", "U+E006C", "U+E006D", "U+E006E", "U+E006F",
   "U+E0070", "U+E0071", "U+E0072", "U+E0073", "U+E0074", "U+E0075", "U+E0076", "U+E0077",
   "U+E0078", "U+E0079", "U+E007A", "U+E007B", "U+E007C", "U+E007D", "U+E007E", "U+E007F",
   "U+E0100", "U+E0101", "U+E0102", "U+E0103", "U+E0104", "U+E0105", "U+E0106", "U+E0107",
   "U+E0108", "U+E0109", "U+E010A", "U+E010B", "U+E010C", "U+E010D", "U+E010E", "U+E010F",
   "U+E0110", "U+E0111", "U+E0112", "U+E0113", "U+E0114", "U+E0115", "U+E0116", "U+E0117",
   "U+E0118", "U+E0119", "U+E011A", "U+E011B", "U+E011C", "U+E011D", "U+E011E", "U+E011F",
   "U+E0120", "U+E0121", "U+E0122", "U+E0123", "U+E0124", "U+E0125", "U+E0126", "U+E0127",
   "U+E0128", "U+E0129", "U+E012A", "U+E012B", "U+E012C", "U+E012D", "U+E012E", "U+E012F",
   "U+E0130", "U+E0131", "U+E0132", "U+E0133", "U+E0134", "U+E0135", "U+E0136", "U+E0137",
   "U+E0138", "U+E0139", "U+E013A", "U+E013B", "U+E013C", "U+E013D", "U+E013E", "U+E013F",
   "U+E0140", "U+E0141", "U+E0142", "U+E0143", "U+E0144", "U+E0145", "U+E0146", "U+E0147",
   "U+E0148", "U+E0149", "U+E014A", "U+E014B", "U+E014C", "U+E014D", "U+E014E", "U+E014F",
   "U+E0150", "U+E0151", "U+E0152", "U+E0153", "U+E0154", "U+E0155", "U+E0156", "U+E0157",
   "U+E0158", "U+E0159", "U+E015A", "U+E015B", "U+E015C", "U+E015D", "U+E015E", "U+E015F",
   "U+E0160", "U+E0161", "U+E0162", "U+E0163", "U+E0164", "U+E0165", "U+E0166", "U+E0167",
   "U+E0168", "U+E0169", "U+E016A", "U+E016B", "U+E016C", "U+E016D", "U+E016E", "U+E016F",
   "U+E0170", "U+E0171", "U+E0172", "U+E0173", "U+E0174", "U+E0175", "U+E0176", "U+E0177",
   "U+E0178", "U+E0179", "U+E017A", "U+E017B", "U+E017C", "U+E017D", "U+E017E", "U+E017F",
   "U+E0180", "U+E0181", "U+E0182", "U+E0183", "U+E0184", "U+E0185", "U+E0186", "U+E0187",
   "U+E0188", "U+E0189", "U+E018A", "U+E018B", "U+E018C", "U+E018D", "U+E018E", "U+E018F",
   "U+E0190", "U+E0191", "U+E0192", "U+E0193", "U+E0194", "U+E0195", "U+E0196", "U+E0197",
   "U+E0198", "U+E0199", "U+E019A", "U+E019B", "U+E019C", "U+E019D", "U+E019E", "U+E019F",
   "U+E01A0", "U+E01A1", "U+E01A2", "U+E01A3", "U+E01A4", "U+E01A5", "U+E01A6", "U+E01A7",
   "U+E01A8", "U+E01A9", "U+E01AA", "U+E01AB", "U+E01AC", "U+E01AD", "U+E01AE", "U+E01AF",
   "U+E01B0", "U+E01B1", "U+E01B2", "U+E01B3", "U+E01B4", "U+E01B5", "U+E01B6", "U+E01B7",
   "U+E01B8", "U+E01B9", "U+E01BA", "U+E01BB", "U+E01BC", "U+E01BD", "U+E01BE", "U+E01BF",
   "U+E01C0", "U+E01C1", "U+E01C2", "U+E01C3", "U+E01C4", "U+E01C5", "U+E01C6", "U+E01C7",
   "U+E01C8", "U+E01C9", "U+E01CA", "U+E01CB", "U+E01CC", "U+E01CD", "U+E01CE", "U+E01CF",
   "U+E01D0", "U+E01D1", "U+E01D2", "U+E01D3", "U+E01D4", "U+E01D5", "U+E01D6", "U+E01D7",
   "U+E01D8", "U+E01D9", "U+E01DA", "U+E01DB", "U+E01DC", "U+E01DD", "U+E01DE", "U+E01DF",
   "U+E01E0", "U+E01E1", "U+E01E2", "U+E01E3", "U+E01E4", "U+E01E5", "U+E01E6", "U+E01E7",
   "U+E01E8", "U+E01E9", "U+E01EA", "U+E01EB", "U+E01EC", "U+E01ED", "U+E01EE", "U+E01EF"}
Cased ==
  {"A", "B", "C", "D", "E", "F", "G", "H", "I", "J", "K", "L", "M", "N", "O", "P", "Q", "R",
   "S", "T", "U", "V", "W", "X", "Y", "Z", "a", "b", "c", "d", "e", "f", "g", "h", "i", "j",
   "k", "l", "m", "n", "o", "p", "q", "r", "s", "t", "u", "v", "w", "x", "y", "z", "ª", "µ",
   "º", "À", "Á", "Â", "Ã", "Ä", "Å", "Æ", "Ç", "È", "É", "Ê", "Ë", "Ì", "Í", "Î", "Ï", "Ð",
   "Ñ", "Ò", "Ó", "Ô", "Õ", "Ö", "Ø", "Ù", "Ú", "Û", "Ü", "Ý", "Þ", "ß", "à", "á", "â", "ã",
   "ä", "å", "æ", "ç", "è", "é", "ê", "ë", "ì", "í", "î", "ï", "ð", "ñ", "ò", "ó", "ô", "õ",
   "ö", "ø", "ù", "ú", "û", "ü", "ý", "þ", "ÿ", "U+0100", "U+0101", "U+0102", "U+0103",
   "U+0104", "U+0105", "U+0106", "U+0107", "U+0108", "U+0109", "U+010A", "U+010B", "U+010C",
   "U+010D", "U+010E", "U+010F", "U+0110", "U+0111", "U+0112", "U+0113", "U+0114", "U+0115",
   "U+0116", "U+0117", "U+0118", "U+0119", "U+011A", "U+011B", "U+011C", "U+011D", "U+011E",
   "U+011F", "U+0120", "U+0121", "U+0122", "U+0123", "U+0124", "U+0125", "U+0126", "U+0127",
   "U+0128", "U+0129", "U+012A", "U+012B", "U+012C", "U+012D", "U+012E", "U+012F", "U+0130",
   "U+0131", "U+0132", "U+0133", "U+0134", "U+0135", "U+0136", "U+0137", "U+0138", "U+0139",
   "U+013A", "U+013B", "U+013C", "U+013D", "U+013E", "U+013F", "U+0140", "U+0141", "U+0142",
   "U+0143", "U+0144", "U+0145", "U+0146", "U+0147", "U+0148", "U+0149", "U+014A", "U+014B",
   "U+014C", "U+014D", "U+014E", "U+014F", "U+0150", "U+0151", "U+0152", "U+0153", "U+0154",
   "U+0155", "U+0156", "U+0157", "U+0158", "U+0159", "U+015A", "U+015B", "U+015C", "U+015D",
   "U+015E", "U+015F", "U+0160", "U+0161", "U+0162", "U+0163", "U+0164", "U+0165", "U+0166",
   "U+0167", "U+0168", "U+0169", "U+016A", "U+016B", "U+016C", "U+016D", "U+016E", "U+016F",
   "U+0170", "U+0171", "U+0172", "U+0173", "U+0174", "U+0175", "U+0176", "U+0177", "U+0178",
   "U+0179", "U+017A", "U+017B", "U+017C", "U+017D", "U+017E", "U+017F", "U+0180", "U+0181",
   "U+0182", "U+0183", "U+0184", "U+0185", "U+0186", "U+0187", "U+0188", "U+0189", "U+018A",
   "U+018B", "U+018C", "U+018D", "U+018E", "U+018F", "U+0190", "U+0191", "U+0192", "U+0193",
   "U+0194", "U+0195", "U+0196", "U+0197", "U+0198", "U+0199", "U+019A", "U+019B", "U+019C",
   "U+019D", "U+019E", "U+019F", "U+01A0", "U+01A1", "U+01A2", "U+01A3", "U+01A4", "U+01A5",
   "U+01A6", "U+01A7", "U+01A8", "U+01A9", "U+01AA", "U+01AB", "U+01AC", "U+01AD", "U+01AE",
   "U+01AF", "U+01B0", "U+01B1", "U+01B2", "U+01B3", "U+01B4", "U+01B5", "U+01B6", "U+01B7",
   "U+01B8", "U+01B9", "U+01BA", "U+01BC", "U+01BD", "U+01BE", "U+01BF", "U+01C4", "U+01C5",
   "U+01C6", "U+01C7", "U+01C8", "U+01C9", "U+01CA", "U+01CB", "U+01CC", "U+01CD", "U+01CE",
   "U+01CF", "U+01D0", "U+01D1", "U+01D2", "U+01D3", "U+01D4", "U+01D5", "U+01D6", "U+01D7",
   "U+01D8", "U+01D9", "U+01DA", "U+01DB", "U+01DC", "U+01DD", "U+01DE", "U+01DF", "U+01E0",
   "U+01E1", "U+01E2", "U+01E3", "U+01E4", "U+01E5", "U+01E6", "U+01E7", "U+01E8", "U+01E9",
   "U+01EA", "U+01EB", "U+01EC", "U+01ED", "U+01EE", "U+01EF", "U+01F0", "U+01F1", "U+01F2",
   "U+01F3", "U+01F4", "U+01F5", "U+01F6", "U+01F7", "U+01F8", "U+01F9", "U+01FA", "U+01FB",
   "U+01FC", "U+01FD", "U+01FE", "U+01FF", "U+0200", "U+0201", "U+0202", "U+0203", "U+0204",
   "U+0205", "U+0206", "U+0207", "U+0208", "U+0209", "U+020A", "U+020B", "U+020C", "U+020D",
   "U+020E", "U+020F", "U+0210", "U+0211", "U+0212", "U+0213", "U+0214", "U+0215", "U+0216",
   "U+0217", "U+0218", "U+0219", "U+021A", "U+021B", "U+021C", "U+021D", "U+021E", "U+021F",
   "U+0220", "U+0221", "U+0222", "U+0223", "U+0224", "U+0225", "U+0226", "U+0227", "U+0228",
   "U+0229", "U+022A", "U+022B", "U+022C", "U+022D", "U+022E", "U+022F", "U+0230", "U+0231",
   "U+0232", "U+0233", "U+0234", "U+0235", "U+0236", "U+0237", "U+0238", "U+0239", "U+023A",
   "U+023B", "U+023C", "U+023D", "U+023E", "U+023F", "U+0240", "U+0241", "U+0242", "U+0243",
   "U+0244", "U+0245", "U+0246", "U+0247", "U+0248", "U+0249", "U+024A", "U+024B", "U+024C",
   "U+024D", "U+024E", "U+024F", "U+0250", "U+0251", "U+0252", "U+0253", "U+0254", "U+0255",
   "U+0256", "U+0257", "U+0258", "U+0259", "U+025A", "U+025B", "U+025C", "U+025D", "U+025E",
   "U+025F", "U+0260", "U+0261", "U+0262", "U+0263", "U+0264", "U+0265", "U+0266", "U+0267",
   "U+0268", "U+0269", "U+026A", "U+026B", "U+026C", "U+026D", "U+026E", "U+026F", "U+0270",
   "U+0271", "U+0272", "U+0273", "U+0274", "U+0275", "U+0276", "U+0277", "U+0278", "U+0279",
   "U+027A", "U+027B", "U+027C", "U+027D", "U+027E", "U+027F", "U+0280", "U+0281", "U+0282",
   "U+0283", "U+0284", "U+0285", "U+0286", "U+0287", "U+0288", "U+0289", "U+028A", "U+028B",
   "U+028C", "U+028D", "U+028E", "U+028F", "U+0290", "U+0291", "U+0292", "U+0293", "U+0295",
   "U+0296", "U+0297", "U+0298", "U+0299", "U+029A", "U+029B", "U+029C", "U+029D", "U+029E",
   "U+029F", "U+02A0", "U+02A1", "U+02A2", "U+02A3", "U+02A4", "U+02A5", "U+02A6", "U+02A7",
   "U+02A8", "U+02A9", "U+02AA", "U+02AB", "U+02AC", "U+02AD", "U+02AE", "U+02AF", "U+0370",
   "U+0371", "U+0372", "U+0373", "U+0376", "U+0377", "U+037B", "U+037C", "U+037D", "U+037F",
   "U+0386", "U+0388", "U+0389", "U+038A", "U+038C", "U+038E", "U+038F", "U+0390", "U+0391",
   "U+0392", "U+0393", "U+0394", "U+0395", "U+0396", "U+0397", "U+0398", "U+0399", "U+039A",
   "U+039B", "U+039C", "U+039D", "U+039E", "U+039F", "U+03A0", "U+03A1", "U+03A3", "U+03A4",
   "U+03A5", "U+03A6", "U+03A7", "U+03A8", "U+03A9", "U+03AA", "U+03AB", "U+03AC", "U+03AD",
   "U+03AE", "U+03AF", "U+03B0", "U+03B1", "U+03B2", "U+03B3", "U+03B4", "U+03B5", "U+03B6",
   "U+03B7", "U+03B8", "U+03B9", "U+03BA", "U+03BB", "U+03BC", "U+03BD", "U+03BE", "U+03BF",
   "U+03C0", "U+03C1", "U+03C2", "U+03C3", "U+03C4", "U+03C5", "U+03C6", "U+03C7", "U+03C8",
   "U+03C9", "U+03CA", "U+03CB", "U+03CC", "U+03CD", "U+03CE", "U+03CF", "U+03D0", "U+03D1",
   "U+03D2", "U+03D3", "U+03D4", "U+03D5", "U+03D6", "U+03D7", "U+03D8", "U+03D9", "U+03DA",
   "U+03DB", "U+03DC", "U+03DD", "U+03DE", "U+03DF", "U+03E0", "U+03E1", "U+03E2", "U+03E3",
   "U+03E4", "U+03E5", "U+03E6", "U+03E7", "U+03E8", "U+03E9", "U+03EA", "U+03EB", "U+03EC",
   "U+03ED", "U+03EE", "U+03EF", "U+03F0", "U+03F1", "U+03F2", "U+03F3", "U+03F4", "U+03F5",
   "U+03F7", "U+03F8", "U+03F9", "U+03FA", "U+03FB", "U+03FC", "U+03FD", "U+03FE", "U+03FF",
   "U+0400", "U+0401", "U+0402", "U+0403", "U+0404", "U+0405", "U+0406", "U+0407", "U+0408",
   "U+0409", "U+040A", "U+040B", "U+040C", "U+040D", "U+040E", "U+040F", "U+0410", "U+0411",
   "U+0412", "U+0413", "U+0414", "U+0415", "U+0416", "U+0417", "U+0418", "U+0419", "U+041A",
   "U+041B", "U+041C", "U+041D", "U+041E", "U+041F", "U+0420", "U+0421", "U+0422", "U+0423",
   "U+0424", "U+0425", "U+0426", "U+0427", "U+0428", "U+0429", "U+042A", "U+042B", "U+042C",
   "U+042D", "U+042E", "U+042F", "U+0430", "U+0431", "U+0432", "U+0433", "U+0434", "U+0435",
   "U+0436", "U+0437", "U+0438", "U+0439", "U+043A", "U+043B", "U+043C", "U+043D", "U+043E",
   "U+043F", "U+0440", "U+0441", "U+0442", "U+0443", "U+0444", "U+0445", "U+0446", "U+0447",
   "U+0448", "U+0449", "U+044A", "U+044B", "U+044C", "U+044D", "U+044E", "U+044F", "U+0450",
   "U+0451", "U+0452", "U+0453", "U+0454", "U+0455", "U+0456", "U+0457", "U+0458", "U+0459",
   "U+045A", "U+045B", "U+045C", "U+045D", "U+045E", "U+045F", "U+0460", "U+0461", "U+0462",
   "U+0463", "U+0464", "U+0465", "U+0466", "U+0467", "U+0468", "U+0469", "U+046A", "U+046B",
   "U+046C", "U+046D", "U+046E", "U+046F", "U+0470", "U+0471", "U+0472", "U+0473", "U+0474",
   "U+0475", "U+0476", "U+0477", "U+0478", "U+0479", "U+047A", "U+047B", "U+047C", "U+047D",
   "U+047E", "U+047F", "U+0480", "U+0481", "U+048A", "U+048B", "U+048C", "U+048D", "U+048E",
   "U+048F", "U+0490", "U+0491", "U+0492", "U+0493", "U+0494", "U+0495", "U+0496", "U+0497",
   "U+0498", "U+0499", "U+049A", "U+049B", "U+049C", "U+049D", "U+049E", "U+049F", "U+04A0",
   "U+04A1", "U+04A2", "U+04A3", "U+04A4", "U+04A5", "U+04A6", "U+04A7", "U+04A8", "U+04A9",
   "U+04AA", "U+04AB", "U+04AC", "U+04AD", "U+04AE", "U+04AF", "U+04B0", "U+04B1", "U+04B2",
   "U+04B3", "U+04B4", "U+04B5", "U+04B6", "U+04B7", "U+04B8", "U+04B9", "U+04BA", "U+04BB",
   "U+04BC", "U+04BD", "U+04BE", "U+04BF", "U+04C0", "U+04C1", "U+04C2", "U+04C3", "U+04C4",
   "U+04C5", "U+04C6", "U+04C7", "U+04C8", "U+04C9", "U+04CA", "U+04CB", "U+04CC", "U+04CD",
   "U+04CE", "U+04CF", "U+04D0", "U+04D1", "U+04D2", "U+04D3", "U+04D4", "U+04D5", "U+04D6",
   "U+04D7", "U+04D8", "U+04D9", "U+04DA", "U+04DB", "U+04DC", "U+04DD", "U+04DE", "U+04DF",
   "U+04E0", "U+04E1", "U+04E2", "U+04E3", "U+04E4", "U+04E5", "U+04E6", "U+04E7", "U+04E8",
   "U+04E9", "U+04EA", "U+04EB", "U+04EC", "U+04ED", "U+04EE", "U+04EF", "U+04F0", "U+04F1",
   "U+04F2", "U+04F3", "U+04F4", "U+04F5", "U+04F6", "U+04F7", "U+04F8", "U+04F9", "U+04FA",
   "U+04FB", "U+04FC", "U+04FD", "U+04FE", "U+04FF", "U+0500", "U+0501", "U+0502", "U+0503",
   "U+0504", "U+0505", "U+0506", "U+0507", "U+0508", "U+0509", "U+050A", "U+050B", "U+050C",
   "U+050D", "U+050E", "U+050F", "U+0510", "U+0511", "U+0512", "U+0513", "U+0514", "U+0515",
   "U+0516", "U+0517", "U+0518", "U+0519", "U+051A", "U+051B", "U+051C", "U+051D", "U+051E",
   "U+051F", "U+0520", "U+0521", "U+0522", "U+0523", "U+0524", "U+0525", "U+0526", "U+0527",
   "U+0528", "U+0529", "U+052A", "U+052B", "U+052C", "U+052D", "U+052E", "U+052F", "U+0531",
   "U+0532", "U+0533", "U+0534", "U+0535", "U+0536", "U+0537", "U+0538", "U+0539", "U+053A",
   "U+053B", "U+053C", "U+053D", "U+053E", "U+053F", "U+0540", "U+0541", "U+0542", "U+0543",
   "U+0544", "U+0545", "U+0546", "U+0547", "U+0548", "U+0549", "U+054A", "U+054B", "U+054C",
   "U+054D", "U+054E", "U+054F", "U+0550", "U+0551", "U+0552", "U+0553", "U+0554", "U+0555",
   "U+0556", "U+0560", "U+0561", "U+0562", "U+0563", "U+0564", "U+0565", "U+0566", "U+0567",
   "U+0568", "U+0569", "U+056A", "U+056B", "U+056C", "U+056D", "U+056E", "U+056F", "U+0570",
   "U+0571", "U+0572", "U+0573", "U+0574", "U+0575", "U+0576", "U+0577", "U+0578", "U+0579",
   "U+057A", "U+057B", "U+057C", "U+057D", "U+057E", "U+057F", "U+0580", "U+0581", "U+0582",
   "U+0583", "U+0584", "U+0585", "U+0586", "U+0587", "U+0588", "U+10A0", "U+10A1", "U+10A2",
   "U+10A3", "U+10A4", "U+10A5", "U+10A6", "U+10A7", "U+10A8", "U+10A9", "U+10AA", "U+10AB",
   "U+10AC", "U+10AD", "U+10AE", "U+10AF", "U+10B0", "U+10B1", "U+10B2", "U+10B3", "U+10B4",
   "U+10B5", "U+10B6", "U+10B7", "U+10B8", "U+10B9", "U+10BA", "U+10BB", "U+10BC", "U+10BD",
   "U+10BE", "U+10BF", "U+10C0", "U+10C1", "U+10C2", "U+10C3", "U+10C4", "U+10C5", "U+10C7",
   "U+10CD", "U+10D0", "U+10D1", "U+10D2", "U+10D3", "U+10D4", "U+10D5", "U+10D6", "U+10D7",
   "U+10D8", "U+10D9", "U+10DA", "U+10DB", "U+10DC", "U+10DD", "U+10DE", "U+10DF", "U+10E0",
   "U+10E1", "U+10E2", "U+10E3", "U+10E4", "U+10E5", "U+10E6", "U+10E7", "U+10E8", "U+10E9",
   "U+10EA", "U+10EB", "U+10EC", "U+10ED", "U+10EE", "U+10EF", "U+10F0", "U+10F1", "U+10F2",
   "U+10F3", "U+10F4", "U+10F5", "U+10F6", "U+10F7", "U+10F8", "U+10F9", "U+10FA", "U+10FD",
   "U+10FE", "U+10FF", "U+13A0", "U+13A1", "U+13A2", "U+13A3", "U+13A4", "U+13A5", "U+13A6",
   "U+13A7", "U+13A8", "U+13A9", "U+13AA", "U+13AB", "U+13AC", "U+13AD", "U+13AE", "U+13AF",
   "U+13B0", "U+13B1", "U+13B2", "U+13B3", "U+13B4", "U+13B5", "U+13B6", "U+13B7", "U+13B8",
   "U+13B9", "U+13BA", "U+13BB", "U+13BC", "U+13BD", "U+13BE", "U+13BF", "U+13C0", "U+13C1",
   "U+13C2", "U+13C3", "U+13C4", "U+13C5", "U+13C6", "U+13C7", "U+13C8", "U+13C9", "U+13CA",
   "U+13CB", "U+13CC", "U+13CD", "U+13CE", "U+13CF", "U+13D0", "U+13D1", "U+13D2", "U+13D3",
   "U+13D4", "U+13D5", "U+13D6", "U+13D7", "U+13D8", "U+13D9", "U+13DA", "U+13DB", "U+13DC",
   "U+13DD", "U+13DE", "U+13DF", "U+13E0", "U+13E1", "U+13E2", "U+13E3", "U+13E4", "U+13E5",
   "U+13E6", "U+13E7", "U+13E8", "U+13E9", "U+13EA", "U+13EB", "U+13EC", "U+13ED", "U+13EE",
   "U+13EF", "U+13F0", "U+13F1", "U+13F2", "U+13F3", "U+13F4", "U+13F5", "U+13F8", "U+13F9",
   "U+13FA", "U+13FB", "U+13FC", "U+13FD", "U+1C80", "U+1C81", "U+1C82", "U+1C83", "U+1C84",
   "U+1C85", "U+1C86", "U+1C87", "U+1C88", "U+1C90", "U+1C91", "U+1C92", "U+1C93", "U+1C94",
   "U+1C95", "U+1C96", "U+1C97", "U+1C98", "U+1C99", "U+1C9A", "U+1C9B", "U+1C9C", "U+1C9D",
   "U+1C9E", "U+1C9F", "U+1CA0", "U+1CA1", "U+1CA2", "U+1CA3", "U+1CA4", "U+1CA5", "U+1CA6",
   "U+1CA7", "U+1CA8", "U+1CA9", "U+1CAA", "U+1CAB", "U+1CAC", "U+1CAD", "U+1CAE", "U+1CAF",
   "U+1CB0", "U+1CB1", "U+1CB2", "U+1CB3", "U+1CB4", "U+1CB5", "U+1CB6", "U+1CB7", "U+1CB8",
   "U+1CB9", "U+1CBA", "U+1CBD", "U+1CBE", "U+1CBF", "U+1D00", "U+1D01", "U+1D02", "U+1D03",
   "U+1D04", "U+1D05", "U+1D06", "U+1D07", "U+1D08", "U+1D09", "U+1D0A", "U+1D0B", "U+1D0C",
   "U+1D0D", "U+1D0E", "U+1D0F", "U+1D10", "U+1D11", "U+1D12", "U+1D13", "U+1D14", "U+1D15",
   "U+1D16", "U+1D17", "U+1D18", "U+1D19", "U+1D1A", "U+1D1B", "U+1D1C", "U+1D1D", "U+1D1E",
   "U+1D1F", "U+1D20", "U+1D21", "U+1D22", "U+1D23", "U+1D24", "U+1D25", "U+1D26", "U+1D27",
   "U+1D28", "U+1D29", "U+1D2A", "U+1D2B", "U+1D6B", "U+1D6C", "U+1D6D", "U+1D6E", "U+1D6F",
   "U+1D70", "U+1D71", "U+1D72", "U+1D73", "U+1D74", "U+1D75", "U+1D76", "U+1D77", "U+1D79",
   "U+1D7A", "U+1D7B", "U+1D7C", "U+1D7D", "U+1D7E", "U+1D7F", "U+1D80", "U+1D81", "U+1D82",
   "U+1D83", "U+1D84", "U+1D85", "U+1D86", "U+1D87", "U+1D88", "U+1D89", "U+1D8A", "U+1D8B",
   "U+1D8C", "U+1D8D", "U+1D8E", "U+1D8F", "U+1D90", "U+1D91", "U+1D92", "U+1D93", "U+1D94",
   "U+1D95", "U+1D96", "U+1D97", "U+1D98", "U+1D99", "U+1D9A", "U+1E00", "U+1E01", "U+1E02",
   "U+1E03", "U+1E04", "U+1E05", "U+1E06", "U+1E07", "U+1E08", "U+1E09", "U+1E0A", "U+1E0B",
   "U+1E0C", "U+1E0D", "U+1E0E", "U+1E0F", "U+1E10", "U+1E11", "U+1E12", "U+1E13", "U+1E14",
   "U+1E15", "U+1E16", "U+1E17", "U+1E18", "U+1E19", "U+1E1A", "U+1E1B", "U+1E1C", "U+1E1D",
   "U+1E1E", "U+1E1F", "U+1E20", "U+1E21", "U+1E22", "U+1E23", "U+1E24", "U+1E25", "U+1E26",
   "U+1E27", "U+1E28", "U+1E29", "U+1E2A", "U+1E2B", "U+1E2C", "U+1E2D", "U+1E2E", "U+1E2F",
   "U+1E30", "U+1E31", "U+1E32", "U+1E33", "U+1E34", "U+1E35", "U+1E36", "U+1E37", "U+1E38",
   "U+1E39", "U+1E3A", "U+1E3B", "U+1E3C", "U+1E3D", "U+1E3E", "U+1E3F", "U+1E40", "U+1E41",
   "U+1E42", "U+1E43", "U+1E44", "U+1E45", "U+1E46", "U+1E47", "U+1E48", "U+1E49", "U+1E4A",
   "U+1E4B", "U+1E4C", "U+1E4D", "U+1E4E", "U+1E4F", "U+1E50", "U+1E51", "U+1E52", "U+1E53",
   "U+1E54", "U+1E55", "U+1E56", "U+1E57", "U+1E58", "U+1E59", "U+1E5A", "U+1E5B", "U+1E5C",
   "U+1E5D", "U+1E5E", "U+1E5F", "U+1E60", "U+1E61", "U+1E62", "U+1E63", "U+1E64", "U+1E65",
   "U+1E66", "U+1E67", "U+1E68", "U+1E69", "U+1E6A", "U+1E6B", "U+1E6C", "U+1E6D", "U+1E6E",
   "U+1E6F", "U+1E70", "U+1E71", "U+1E72", "U+1E73", "U+1E74", "U+1E75", "U+1E76", "U+1E77",
   "U+1E78", "U+1E79", "U+1E7A", "U+1E7B", "U+1E7C", "U+1E7D", "U+1E7E", "U+1E7F", "U+1E80",
   "U+1E81", "U+1E82", "U+1E83", "U+1E84", "U+1E85", "U+1E86", "U+1E87", "U+1E88", "U+1E89",
   "U+1E8A", "U+1E8B", "U+1E8C", "U+1E8D", "U+1E8E", "U+1E8F", "U+1E90", "U+1E91", "U+1E92",
   "U+1E93", "U+1E94", "U+1E95", "U+1E96", "U+1E97", "U+1E98", "U+1E99", "U+1E9A", "U+1E9B",
   "U+1E9C", "U+1E9D", "U+1E9E", "U+1E9F", "U+1EA0", "U+1EA1", "U+1EA2", "U+1EA3", "U+1EA4",
   "U+1EA5", "U+1EA6", "U+1EA7", "U+1EA8", "U+1EA9", "U+1EAA", "U+1EAB", "U+1EAC", "U+1EAD",
   "U+1EAE", "U+1EAF", "U+1EB0", "U+1EB1", "U+1EB2", "U+1EB3", "U+1EB4", "U+1EB5", "U+1EB6",
   "U+1EB7", "U+1EB8", "U+1EB9", "U+1EBA", "U+1EBB", "U+1EBC", "U+1EBD", "U+1EBE", "U+1EBF",
   "U+1EC0", "U+1EC1", "U+1EC2", "U+1EC3", "U+1EC4", "U+1EC5", "U+1EC6", "U+1EC7", "U+1EC8",
   "U+1EC9", "U+1ECA", "U+1ECB", "U+1ECC", "U+1ECD", "U+1ECE", "U+1ECF", "U+1ED0", "U+1ED1",
   "U+1ED2", "U+1ED3", "U+1ED4", "U+1ED5", "U+1ED6", "U+1ED7", "U+1ED8", "U+1ED9", "U+1EDA",
   "U+1EDB", "U+1EDC", "U+1EDD", "U+1EDE", "U+1EDF", "U+1EE0", "U+1EE1", "U+1EE2", "U+1EE3",
   "U+1EE4", "U+1EE5", "U+1EE6", "U+1EE7", "U+1EE8", "U+1EE9", "U+1EEA", "U+1EEB", "U+1EEC",
   "U+1EED", "U+1EEE", "U+1EEF", "U+1EF0", "U+1EF1", "U+1EF2", "U+1EF3", "U+1EF4", "U+1EF5",
   "U+1EF6", "U+1EF7", "U+1EF8", "U+1EF9", "U+1EFA", "U+1EFB", "U+1EFC", "U+1EFD", "U+1EFE",
   "U+1EFF", "U+1F00", "U+1F01", "U+1F02", "U+1F03", "U+1F04", "U+1F05", "U+1F06", "U+1F07",
   "U+1F08", "U+1F09", "U+1F0A", "U+1F0B", "U+1F0C", "U+1F0D", "U+1F0E", "U+1F0F", "U+1F10",
   "U+1F11", "U+1F12", "U+1F13", "U+1F14", "U+1F15", "U+1F18", "U+1F19", "U+1F1A", "U+1F1B",
   "U+1F1C", "U+1F1D", "U+1F20", "U+1F21", "U+1F22", "U+1F23", "U+1F24", "U+1F25", "U+1F26",
   "U+1F27", "U+1F28", "U+1F29", "U+1F2A", "U+1F2B", "U+1F2C", "U+1F2D", "U+1F2E", "U+1F2F",
   "U+1F30", "U+1F31", "U+1F32", "U+1F33", "U+1F34", "U+1F35", "U+1F36", "U+1F37", "U+1F38",
   "U+1F39", "U+1F3A", "U+1F3B", "U+1F3C", "U+1F3D", "U+1F3E", "U+1F3F", "U+1F40", "U+1F41",
   "U+1F42", "U+1F43", "U+1F44", "U+1F45", "U+1F48", "U+1F49", "U+1F4A", "U+1F4B", "U+1F4C",
   "U+1F4D", "U+1F50", "U+1F51", "U+1F52", "U+1F53", "U+1F54", "U+1F55", "U+1F56", "U+1F57",
   "U+1F59", "U+1F5B", "U+1F5D", "U+1F5F", "U+1F60", "U+1F61", "U+1F62", "U+1F63", "U+1F64",
   "U+1F65", "U+1F66", "U+1F67", "U+1F68", "U+1F69", "U+1F6A", "U+1F6B", "U+1F6C", "U+1F6D",
   "U+1F6E", "U+1F6F", "U+1F70", "U+1F71", "U+1F72", "U+1F73", "U+1F74", "U+1F75", "U+1F76",
   "U+1F77", "U+1F78", "U+1F79", "U+1F7A", "U+1F7B", "U+1F7C", "U+1F7D", "U+1F80", "U+1F81",
   "U+1F82", "U+1F83", "U+1F84", "U+1F85", "U+1F86", "U+1F87", "U+1F88", "U+1F89", "U+1F8A",
   "U+1F8B", "U+1F8C", "U+1F8D", "U+1F8E", "U+1F8F", "U+1F90", "U+1F91", "U+1F92", "U+1F93",
   "U+1F94", "U+1F95", "U+1F96", "U+1F97", "U+1F98", "U+1F99", "U+1F9A", "U+1F9B", "U+1F9C",
   "U+1F9D", "U+1F9E", "U+1F9F", "U+1FA0", "U+1FA1", "U+1FA2", "U+1FA3", "U+1FA4", "U+1FA5",
   "U+1FA6", "U+1FA7", "U+1FA8", "U+1FA9", "U+1FAA", "U+1FAB", "U+1FAC", "U+1FAD", "U+1FAE",
   "U+1FAF", "U+1FB0", "U+1FB1", "U+1FB2", "U+1FB3", "U+1FB4", "U+1FB6", "U+1FB7", "U+1FB8",
   "U+1FB9", "U+1FBA", "U+1FBB", "U+1FBC", "U+1FBE", "U+1FC2", "U+1FC3", "U+1FC4", "U+1FC6",
   "U+1FC7", "U+1FC8", "U+1FC9", "U+1FCA", "U+1FCB", "U+1FCC", "U+1FD0", "U+1FD1", "U+1FD2",
   "U+1FD3", "U+1FD6", "U+1FD7", "U+1FD8", "U+1FD9", "U+1FDA", "U+1FDB", "U+1FE0", "U+1FE1",
   "U+1FE2", "U+1FE3", "U+1FE4", "U+1FE5", "U+1FE6", "U+1FE7", "U+1FE8", "U+1FE9", "U+1FEA",
   "U+1FEB", "U+1FEC", "U+1FF2", "U+1FF3", "U+1FF4", "U+1FF6", "U+1FF7", "U+1FF8", "U+1FF9",
   "U+1FFA", "U+1FFB", "U+1FFC", "U+2102", "U+2107", "U+210A", "U+210B", "U+210C", "U+210D",
   "U+210E", "U+210F", "U+2110", "U+2111", "U+2112", "U+2113", "U+2115", "U+2119", "U+211A",
   "U+211B", "U+211C", "U+211D", "U+2124", "U+2126", "U+2128", "U+212A", "U+212B", "U+212C",
   "U+212D", "U+212F", "U+2130", "U+2131", "U+2132", "U+2133", "U+2134", "U+2139", "U+213C",
   "U+213D", "U+213E", "U+213F", "U+2145", "U+2146", "U+2147", "U+2148", "U+2149", "U+214E",
   "U+2160", "U+2161", "U+2162", "U+2163", "U+2164", "U+2165", "U+2166", "U+2167", "U+2168",
   "U+2169", "U+216A", "U+216B", "U+216C", "U+216D", "U+216E", "U+216F", "U+2170", "U+2171",
   "U+2172", "U+2173", "U+2174", "U+2175", "U+2176", "U+2177", "U+2178", "U+2179", "U+217A",
   "U+217B", "U+217C", "U+217D", "U+217E", "U+217F", "U+2183", "U+2184", "U+24B6", "U+24B7",
   "U+24B8", "U+24B9", "U+24BA", "U+24BB", "U+24BC", "U+24BD", "U+24BE", "U+24BF", "U+24C0",
   "U+24C1", "U+24C2", "U+24C3", "U+24C4", "U+24C5", "U+24C6", "U+24C7", "U+24C8", "U+24C9",
   "U+24CA", "U+24CB", "U+24CC", "U+24CD", "U+24CE", "U+24CF", "U+24D0", "U+24D1", "U+24D2",
   "U+24D3", "U+24D4", "U+24D5", "U+24D6", "U+24D7", "U+24D8", "U+24D9", "U+24DA", "U+24DB",
   "U+24DC", "U+24DD", "U+24DE", "U+24DF", "U+24E0", "U+24E1", "U+24E2", "U+24E3", "U+24E4",
   "U+24E5", "U+24E6", "U+24E7", "U+24E8", "U+24E9", "U+2C00", "U+2C01", "U+2C02", "U+2C03",
   "U+2C04", "U+2C05", "U+2C06", "U+2C07", "U+2C08", "U+2C09", "U+2C0A", "U+2C0B", "U+2C0C",
   "U+2C0D", "U+2C0E", "U+2C0F", "U+2C10", "U+2C11", "U+2C12", "U+2C13", "U+2C14", "U+2C15",
   "U+2C16", "U+2C17", "U+2C18", "U+2C19", "U+2C1A", "U+2C1B", "U+2C1C", "U+2C1D", "U+2C1E",
   "U+2C1F", "U+2C20", "U+2C21", "U+2C22", "U+2C23", "U+2C24", "U+2C25", "U+2C26", "U+2C27",
   "U+2C28", "U+2C29", "U+2C2A", "U+2C2B", "U+2C2C", "U+2C2D", "U+2C2E", "U+2C2F", "U+2C30",
   "U+2C31", "U+2C32", "U+2C33", "U+2C34", "U+2C35", "U+2C36", "U+2C37", "U+2C38", "U+2C39",
   "U+2C3A", "U+2C3B", "U+2C3C", "U+2C3D", "U+2C3E", "U+2C3F", "U+2C40", "U+2C41", "U+2C42",
   "U+2C43", "U+2C44", "U+2C45", "U+2C46", "U+2C47", "U+2C48", "U+2C49", "U+2C4A", "U+2C4B",
   "U+2C4C", "U+2C4D", "U+2C4E", "U+2C4F", "U+2C50", "U+2C51", "U+2C52", "U+2C53", "U+2C54",
   "U+2C55", "U+2C56", "U+2C57", "U+2C58", "U+2C59", "U+2C5A", "U+2C5B", "U+2C5C", "U+2C5D",
   "U+2C5E", "U+2C5F", "U+2C60", "U+2C61", "U+2C62", "U+2C63", "U+2C64", "U+2C65", "U+2C66",
   "U+2C67", "U+2C68", "U+2C69", "U+2C6A", "U+2C6B", "U+2C6C", "U+2C6D", "U+2C6E", "U+2C6F",
   "U+2C70", "U+2C71", "U+2C72", "U+2C73", "U+2C74", "U+2C75", "U+2C76", "U+2C77", "U+2C78",
   "U+2C79", "U+2C7A", "U+2C7B", "U+2C7E", "U+2C7F", "U+2C80", "U+2C81", "U+2C82", "U+2C83",
   "U+2C84", "U+2C85", "U+2C86", "U+2C87", "U+2C88", "U+2C89", "U+2C8A", "U+2C8B", "U+2C8C",
   "U+2C8D", "U+2C8E", "U+2C8F", "U+2C90", "U+2C91", "U+2C92", "U+2C93", "U+2C94", "U+2C95",
   "U+2C96", "U+2C97", "U+2C98", "U+2C99", "U+2C9A", "U+2C9B", "U+2C9C", "U+2C9D", "U+2C9E",
   "U+2C9F", "U+2CA0", "U+2CA1", "U+2CA2", "U+2CA3", "U+2CA4", "U+2CA5", "U+2CA6", "U+2CA7",
   "U+2CA8", "U+2CA9", "U+2CAA", "U+2CAB", "U+2CAC", "U+2CAD", "U+2CAE", "U+2CAF", "U+2CB0",
   "U+2CB1", "U+2CB2", "U+2CB3", "U+2CB4", "U+2CB5", "U+2CB6", "U+2CB7", "U+2CB8", "U+2CB9",
   "U+2CBA", "U+2CBB", "U+2CBC", "U+2CBD", "U+2CBE", "U+2CBF", "U+2CC0", "U+2CC1", "U+2CC2",
   "U+2CC3", "U+2CC4", "U+2CC5", "U+2CC6", "U+2CC7", "U+2CC8", "U+2CC9", "U+2CCA", "U+2CCB",
   "U+2CCC", "U+2CCD", "U+2CCE", "U+2CCF", "U+2CD0", "U+2CD1", "U+2CD2", "U+2CD3", "U+2CD4",
   "U+2CD5", "U+2CD6", "U+2CD7", "U+2CD8", "U+2CD9", "U+2CDA", "U+2CDB", "U+2CDC", "U+2CDD",
   "U+2CDE", "U+2CDF", "U+2CE0", "U+2CE1", "U+2CE2", "U+2CE3", "U+2CE4", "U+2CEB", "U+2CEC",
   "U+2CED", "U+2CEE", "U+2CF2", "U+2CF3", "U+2D00", "U+2D01", "U+2D02", "U+2D03", "U+2D04",
   "U+2D05", "U+2D06", "U+2D07", "U+2D08", "U+2D09", "U+2D0A", "U+2D0B", "U+2D0C", "U+2D0D",
   "U+2D0E", "U+2D0F", "U+2D10", "U+2D11", "U+2D12", "U+2D13", "U+2D14", "U+2D15", "U+2D16",
   "U+2D17", "U+2D18", "U+2D19", "U+2D1A", "U+2D1B", "U+2D1C", "U+2D1D", "U+2D1E", "U+2D1F",
   "U+2D20", "U+2D21", "U+2D22", "U+2D23", "U+2D24", "U+2D25", "U+2D27", "U+2D2D", "U+A640",
   "U+A641", "U+A642", "U+A643", "U+A644", "U+A645", "U+A646", "U+A647", "U+A648", "U+A649",
   "U+A64A", "U+A64B", "U+A64C", "U+A64D", "U+A64E", "U+A64F", "U+A650", "U+A651", "U+A652",
   "U+A653", "U+A654", "U+A655", "U+A656", "U+A657", "U+A658", "U+A659", "U+A65A", "U+A65B",
   "U+A65C", "U+A65D", "U+A65E", "U+A65F", "U+A660", "U+A661", "U+A662", "U+A663", "U+A664",
   "U+A665", "U+A666", "U+A667", "U+A668", "U+A669", "U+A66A", "U+A66B", "U+A66C", "U+A66D",
   "U+A680", "U+A681", "U+A682", "U+A683", "U+A684", "U+A685", "U+A686", "U+A687", "U+A688",
   "U+A689", "U+A68A", "U+A68B", "U+A68C", "U+A68D", "U+A68E", "U+A68F", "U+A690", "U+A691",
   "U+A692", "U+A693", "U+A694", "U+A695", "U+A696", "U+A697", "U+A698", "U+A699", "U+A69A",
   "U+A69B", "U+A722", "U+A723", "U+A724", "U+A725", "U+A726", "U+A727", "U+A728", "U+A729",
   "U+A72A", "U+A72B", "U+A72C", "U+A72D", "U+A72E", "U+A72F", "U+A730", "U+A731", "U+A732",
   "U+A733", "U+A734", "U+A735", "U+A736", "U+A737", "U+A738", "U+A739", "U+A73A", "U+A73B",
   "U+A73C", "U+A73D", "U+A73E", "U+A73F", "U+A740", "U+A741", "U+A742", "U+A743", "U+A744",
   "U+A745", "U+A746", "U+A747", "U+A748", "U+A749", "U+A74A", "U+A74B", "U+A74C", "U+A74D",
   "U+A74E", "U+A74F", "U+A750", "U+A751", "U+A752", "U+A753", "U+A754", "U+A755", "U+A756",
   "U+A757", "U+A758", "U+A759", "U+A75A", "U+A75B", "U+A75C", "U+A75D", "U+A75E", "U+A75F",
   "U+A760", "U+A761", "U+A762", "U+A763", "U+A764", "U+A765", "U+A766", "U+A767", "U+A768",
   "U+A769", "U+A76A", "U+A76B", "U+A76C", "U+A76D", "U+A76E", "U+A76F", "U+A771", "U+A772",
   "U+A773", "U+A774", "U+A775", "U+A776", "U+A777", "U+A778", "U+A779", "U+A77A", "U+A77B",
   "U+A77C", "U+A77D", "U+A77E", "U+A77F", "U+A780", "U+A781", "U+A782", "U+A783", "U+A784",
   "U+A785", "U+A786", "U+A787", "U+A78B", "U+A78C", "U+A78D", "U+A78E", "U+A790", "U+A791",
   "U+A792", "U+A793", "U+A794", "U+A795", "U+A796", "U+A797", "U+A798", "U+A799", "U+A79A",
   "U+A79B", "U+A79C", "U+A79D", "U+A79E", "U+A79F", "U+A7A0", "U+A7A1", "U+A7A2", "U+A7A3",
   "U+A7A4", "U+A7A5", "U+A7A6", "U+A7A7", "U+A7A8", "U+A7A9", "U+A7AA", "U+A7AB", "U+A7AC",
   "U+A7AD", "U+A7AE", "U+A7AF", "U+A7B0", "U+A7B1", "U+A7B2", "U+A7B3", "U+A7B4", "U+A7B5",
   "U+A7B6", "U+A7B7", "U+A7B8", "U+A7B9", "U+A7BA", "U+A7BB", "U+A7BC", "U+A7BD", "U+A7BE",
   "U+A7BF", "U+A7C0", "U+A7C1", "U+A7C2", "U+A7C3", "U+A7C4", "U+A7C5", "U+A7C6", "U+A7C7",
   "U+A7C8", "U+A7C9", "U+A7CA", "U+A7D0", "U+A7D1", "U+A7D3", "U+A7D5", "U+A7D6", "U+A7D7",
   "U+A7D8", "U+A7D9", "U+A7F5", "U+A7F6", "U+A7FA", "U+AB30", "U+AB31", "U+AB32", "U+AB33",
   "U+AB34", "U+AB35", "U+AB36", "U+AB37", "U+AB38", "U+AB39", "U+AB3A", "U+AB3B", "U+AB3C",
   "U+AB3D", "U+AB3E", "U+AB3F", "U+AB40", "U+AB41", "U+AB42", "U+AB43", "U+AB44", "U+AB45",
   "U+AB46", "U+AB47", "U+AB48", "U+AB49", "U+AB4A", "U+AB4B", "U+AB4C", "U+AB4D", "U+AB4E",
   "U+AB4F", "U+AB50", "U+AB51", "U+AB52", "U+AB53", "U+AB54", "U+AB55", "U+AB56", "U+AB57",
   "U+AB58", "U+AB59", "U+AB5A", "U+AB60", "U+AB61", "U+AB62", "U+AB63", "U+AB64", "U+AB65",
   "U+AB66", "U+AB67", "U+AB68", "U+AB70", "U+AB71", "U+AB72", "U+AB73", "U+AB74", "U+AB75",
   "U+AB76", "U+AB77", "U+AB78", "U+AB79", "U+AB7A", "U+AB7B", "U+AB7C", "U+AB7D", "U+AB7E",
   "U+AB7F", "U+AB80", "U+AB81", "U+AB82", "U+AB83", "U+AB84", "U+AB85", "U+AB86", "U+AB87",
   "U+AB88", "U+AB89", "U+AB8A", "U+AB8B", "U+AB8C", "U+AB8D", "U+AB8E", "U+AB8F", "U+AB90",
   "U+AB91", "U+AB92", "U+AB93", "U+AB94", "U+AB95", "U+AB96", "U+AB97", "U+AB98", "U+AB99",
   "U+AB9A", "U+AB9B", "U+AB9C", "U+AB9D", "U+AB9E", "U+AB9F", "U+ABA0", "U+ABA1", "U+ABA2",
   "U+ABA3", "U+ABA4", "U+ABA5", "U+ABA6", "U+ABA7", "U+ABA8", "U+ABA9", "U+ABAA", "U+ABAB",
   "U+ABAC", "U+ABAD", "U+ABAE", "U+ABAF", "U+ABB0", "U+ABB1", "U+ABB2", "U+ABB3", "U+ABB4",
   "U+ABB5", "U+ABB6", "U+ABB7", "U+ABB8", "U+ABB9", "U+ABBA", "U+ABBB", "U+ABBC", "U+ABBD",
   "U+ABBE", "U+ABBF", "U+FB00", "U+FB01", "U+FB02", "U+FB03", "U+FB04", "U+FB05", "U+FB06",
   "U+FB13", "U+FB14", "U+FB15", "U+FB16", "U+FB17", "U+FF21", "U+FF22", "U+FF23", "U+FF24",
   "U+FF25", "U+FF26", "U+FF27", "U+FF28", "U+FF29", "U+FF2A", "U+FF2B", "U+FF2C", "U+FF2D",
   "U+FF2E", "U+FF2F", "U+FF30", "U+FF31", "U+FF32", "U+FF33", "U+FF34", "U+FF35", "U+FF36",
   "U+FF37", "U+FF38", "U+FF39", "U+FF3A", "U+FF41", "U+FF42", "U+FF43", "U+FF44", "U+FF45",
   "U+FF46", "U+FF47", "U+FF48", "U+FF49", "U+FF4A", "U+FF4B", "U+FF4C", "U+FF4D", "U+FF4E",
   "U+FF4F", "U+FF50", "U+FF51", "U+FF52", "U+FF53", "U+FF54", "U+FF55", "U+FF56", "U+FF57",
   "U+FF58", "U+FF59", "U+FF5A", "U+10400", "U+10401", "U+10402", "U+10403", "U+10404",
   "U+10405", "U+10406", "U+10407", "U+10408", "U+10409", "U+1040A", "U+1040B", "U+1040C",
   "U+1040D", "U+1040E", "U+1040F", "U+10410", "U+10411", "U+10412", "U+10413", "U+10414",
   "U+10415", "U+10416", "U+10417", "U+10418", "U+10419", "U+1041A", "U+1041B", "U+1041C",
   "U+1041D", "U+1041E", "U+1041F", "U+10420", "U+10421", "U+10422", "U+10423", "U+10424",
   "U+10425", "U+10426", "U+10427", "U+10428", "U+10429", "U+1042A", "U+1042B", "U+1042C",
   "U+1042D", "U+1042E", "U+1042F", "U+10430", "U+10431", "U+10432", "U+10433", "U+10434",
   "U+10435", "U+10436", "U+10437", "U+10438", "U+10439", "U+1043A", "U+1043B", "U+1043C",
   "U+1043D", "U+1043E", "U+1043F", "U+10440", "U+10441", "U+10442", "U+10443", "U+10444",
   "U+10445", "U+10446", "U+10447", "U+10448", "U+10449", "U+1044A", "U+1044B", "U+1044C",
   "U+1044D", "U+1044E", "U+1044F", "U+104B0", "U+104B1", "U+104B2", "U+104B3", "U+104B4",
   "U+104B5", "U+104B6", "U+104B7", "U+104B8", "U+104B9", "U+104BA", "U+104BB", "U+104BC",
   "U+104BD", "U+104BE", "U+104BF", "U+104C0", "U+104C1", "U+104C2", "U+104C3", "U+104C4",
   "U+104C5", "U+104C6", "U+104C7", "U+104C8", "U+104C9", "U+104CA", "U+104CB", "U+104CC",
   "U+104CD", "U+104CE", "U+104CF", "U+104D0", "U+104D1", "U+104D2", "U+104D3", "U+104D8",
   "U+104D9", "U+104DA", "U+104DB", "U+104DC", "U+104DD", "U+104DE", "U+104DF", "U+104E0",
   "U+104E1", "U+104E2", "U+104E3", "U+104E4", "U+104E5", "U+104E6", "U+104E7", "U+104E8",
   "U+104E9", "U+104EA", "U+104EB", "U+104EC", "U+104ED", "U+104EE", "U+104EF", "U+104F0",
   "U+104F1", "U+104F2", "U+104F3", "U+104F4", "U+104F5", "U+104F6", "U+104F7", "U+104F8",
   "U+104F9", "U+104FA", "U+104FB", "U+10570", "U+10571", "U+10572", "U+10573", "U+10574",
   "U+10575", "U+10576", "U+10577", "U+10578", "U+10579", "U+1057A", "U+1057C", "U+1057D",
   "U+1057E", "U+1057F", "U+10580", "U+10581", "U+10582", "U+10583", "U+10584", "U+10585",
   "U+10586", "U+10587", "U+10588", "U+10589", "U+1058A", "U+1058C", "U+1058D", "U+1058E",
   "U+1058F", "U+10590", "U+10591", "U+10592", "U+10594", "U+10595", "U+10597", "U+10598",
   "U+10599", "U+1059A", "U+1059B", "U+1059C", "U+1059D", "U+1059E", "U+1059F", "U+105A0",
   "U+105A1", "U+105A3", "U+105A4", "U+105A5", "U+105A6", "U+105A7", "U+105A8", "U+105A9",
   "U+105AA", "U+105AB", "U+105AC", "U+105AD", "U+105AE", "U+105AF", "U+105B0", "U+105B1",
   "U+105B3", "U+105B4", "U+105B5", "U+105B6", "U+105B7", "U+105B8", "U+105B9", "U+105BB",
   "U+105BC", "U+10C80", "U+10C81", "U+10C82", "U+10C83", "U+10C84", "U+10C85", "U+10C86",
   "U+10C87", "U+10C88", "U+10C89", "U+10C8A", "U+10C8B", "U+10C8C", "U+10C8D", "U+10C8E",
   "U+10C8F", "U+10C90", "U+10C91", "U+10C92", "U+10C93", "U+10C94", "U+10C95", "U+10C96",
   "U+10C97", "U+10C98", "U+10C99", "U+10C9A", "U+10C9B", "U+10C9C", "U+10C9D", "U+10C9E",
   "U+10C9F", "U+10CA0", "U+10CA1", "U+10CA2", "U+10CA3", "U+10CA4", "U+10CA5", "U+10CA6",
   "U+10CA7", "U+10CA8", "U+10CA9", "U+10CAA", "U+10CAB", "U+10CAC", "U+10CAD", "U+10CAE",
   "U+10CAF", "U+10CB0", "U+10CB1", "U+10CB2", "U+10CC0", "U+10CC1", "U+10CC2", "U+10CC3",
   "U+10CC4", "U+10CC5", "U+10CC6", "U+10CC7", "U+10CC8", "U+10CC9", "U+10CCA", "U+10CCB",
   "U+10CCC", "U+10CCD", "U+10CCE", "U+10CCF", "U+10CD0", "U+10CD1", "U+10CD2", "U+10CD3",
   "U+10CD4", "U+10CD5", "U+10CD6", "U+10CD7", "U+10CD8", "U+10CD9", "U+10CDA", "U+10CDB",
   "U+10CDC", "U+10CDD", "U+10CDE", "U+10CDF", "U+10CE0", "U+10CE1", "U+10CE2", "U+10CE3",
   "U+10CE4", "U+10CE5", "U+10CE6", "U+10CE7", "U+10CE8", "U+10CE9", "U+10CEA", "U+10CEB",
   "U+10CEC", "U+10CED", "U+10CEE", "U+10CEF", "U+10CF0", "U+10CF1", "U+10CF2", "U+118A0",
   "U+118A1", "U+118A2", "U+118A3", "U+118A4", "U+118A5", "U+118A6", "U+118A7", "U+118A8",
   "U+118A9", "U+118AA", "U+118AB", "U+118AC", "U+118AD", "U+118AE", "U+118AF", "U+118B0",
   "U+118B1", "U+118B2", "U+118B3", "U+118B4", "U+118B5", "U+118B6", "U+118B7", "U+118B8",
   "U+118B9", "U+118BA", "U+118BB", "U+118BC", "U+118BD", "U+118BE", "U+118BF", "U+118C0",
   "U+118C1", "U+118C2", "U+118C3", "U+118C4", "U+118C5", "U+118C6", "U+118C7", "U+118C8",
   "U+118C9", "U+118CA", "U+118CB", "U+118CC", "U+118CD", "U+118CE", "U+118CF", "U+118D0",
   "U+118D1", "U+118D2", "U+118D3", "U+118D4", "U+118D5", "U+118D6", "U+118D7", "U+118D8",
   "U+118D9", "U+118DA", "U+118DB", "U+118DC", "U+118DD", "U+118DE", "U+118DF", "U+16E40",
   "U+16E41", "U+16E42", "U+16E43", "U+16E44", "U+16E45", "U+16E46", "U+16E47", "U+16E48",
   "U+16E49", "U+16E4A", "U+16E4B", "U+16E4C", "U+16E4D", "U+16E4E", "U+16E4F", "U+16E50",
   "U+16E51", "U+16E52", "U+16E53", "U+16E54", "U+16E55", "U+16E56", "U+16E57", "U+16E58",
   "U+16E59", "U+16E5A", "U+16E5B", "U+16E5C", "U+16E5D", "U+16E5E", "U+16E5F", "U+16E60",
   "U+16E61", "U+16E62", "U+16E63", "U+16E64", "U+16E65", "U+16E66", "U+16E67", "U+16E68",
   "U+16E69", "U+16E6A", "U+16E6B", "U+16E6C", "U+16E6D", "U+16E6E", "U+16E6F", "U+16E70",
   "U+16E71", "U+16E72", "U+16E73", "U+16E74", "U+16E75", "U+16E76", "U+16E77", "U+16E78",
   "U+16E79", "U+16E7A", "U+16E7B", "U+16E7C", "U+16E7D", "U+16E7E", "U+16E7F", "U+1D400",
   "U+1D401", "U+1D402", "U+1D403", "U+1D404", "U+1D405", "U+1D406", "U+1D407", "U+1D408",
   "U+1D409", "U+1D40A", "U+1D40B", "U+1D40C", "U+1D40D", "U+1D40E", "U+1D40F", "U+1D410",
   "U+1D411", "U+1D412", "U+1D413", "U+1D414", "U+1D415", "U+1D416", "U+1D417", "U+1D418",
   "U+1D419", "U+1D41A", "U+1D41B", "U+1D41C", "U+1D41D", "U+1D41E", "U+1D41F", "U+1D420",
   "U+1D421", "U+1D422", "U+1D423", "U+1D424", "U+1D425", "U+1D426", "U+1D427", "U+1D428",
   "U+1D429", "U+1D42A", "U+1D42B", "U+1D42C", "U+1D42D", "U+1D42E", "U+1D42F", "U+1D430",
   "U+1D431", "U+1D432", "U+1D433", "U+1D434", "U+1D435", "U+1D436", "U+1D437", "U+1D438",
   "U+1D439", "U+1D43A", "U+1D43B", "U+1D43C", "U+1D43D", "U+1D43E", "U+1D43F", "U+1D440",
   "U+1D441", "U+1D442", "U+1D443", "U+1D444", "U+1D445", "U+1D446", "U+1D447", "U+1D448",
   "U+1D449", "U+1D44A", "U+1D44B", "U+1D44C", "U+1D44D", "U+1D44E", "U+1D44F", "U+1D450",
   "U+1D451", "U+1D452", "U+1D453", "U+1D454", "U+1D456", "U+1D457", "U+1D458", "U+1D459",
   "U+1D45A", "U+1D45B", "U+1D45C", "U+1D45D", "U+1D45E", "U+1D45F", "U+1D460", "U+1D461",
   "U+1D462", "U+1D463", "U+1D464", "U+1D465", "U+1D466", "U+1D467", "U+1D468", "U+1D469",
   "U+1D46A", "U+1D46B", "U+1D46C", "U+1D46D", "U+1D46E", "U+1D46F", "U+1D470", "U+1D471",
   "U+1D472", "U+1D473", "U+1D474", "U+1D475", "U+1D476", "U+1D477", "U+1D478", "U+1D479",
   "U+1D47A", "U+1D47B", "U+1D47C", "U+1D47D", "U+1D47E", "U+1D47F", "U+1D480", "U+1D481",
   "U+1D482", "U+1D483", "U+1D484", "U+1D485", "U+1D486", "U+1D487", "U+1D488", "U+1D489",
   "U+1D48A", "U+1D48B", "U+1D48C", "U+1D48D", "U+1D48E", "U+1D48F", "U+1D490", "U+1D491",
   "U+1D492", "U+1D493", "U+1D494", "U+1D495", "U+1D496", "U+1D497", "U+1D498", "U+1D499",
   "U+1D49A", "U+1D49B", "U+1D49C", "U+1D49E", "U+1D49F", "U+1D4A2", "U+1D4A5", "U+1D4A6",
   "U+1D4A9", "U+1D4AA", "U+1D4AB", "U+1D4AC", "U+1D4AE", "U+1D4AF", "U+1D4B0", "U+1D4B1",
   "U+1D4B2", "U+1D4B3", "U+1D4B4", "U+1D4B5", "U+1D4B6", "U+1D4B7", "U+1D4B8", "U+1D4B9",
   "U+1D4BB", "U+1D4BD", "U+1D4BE", "U+1D4BF", "U+1D4C0", "U+1D4C1", "U+1D4C2", "U+1D4C3",
   "U+1D4C5", "U+1D4C6", "U+1D4C7", "U+1D4C8", "U+1D4C9", "U+1D4CA", "U+1D4CB", "U+1D4CC",
   "U+1D4CD", "U+1D4CE", "U+1D4CF", "U+1D4D0", "U+1D4D1", "U+1D4D2", "U+1D4D3", "U+1D4D4",
   "U+1D4D5", "U+1D4D6", "U+1D4D7", "U+1D4D8", "U+1D4D9", "U+1D4DA", "U+1D4DB", "U+1D4DC",
   "U+1D4DD", "U+1D4DE", "U+1D4DF", "U+1D4E0", "U+1D4E1", "U+1D4E2", "U+1D4E3", "U+1D4E4",
   "U+1D4E5", "U+1D4E6", "U+1D4E7", "U+1D4E8", "U+1D4E9", "U+1D4EA", "U+1D4EB", "U+1D4EC",
   "U+1D4ED", "U+1D4EE", "U+1D4EF", "U+1D4F0", "U+1D4F1", "U+1D4F2", "U+1D4F3", "U+1D4F4",
   "U+1D4F5", "U+1D4F6", "U+1D4F7", "U+1D4F8", "U+1D4F9", "U+1D4FA", "U+1D4FB", "U+1D4FC",
   "U+1D4FD", "U+1D4FE", "U+1D4FF", "U+1D500", "U+1D501", "U+1D502", "U+1D503", "U+1D504",
   "U+1D505", "U+1D507", "U+1D508", "U+1D509", "U+1D50A", "U+1D50D", "U+1D50E", "U+1D50F",
   "U+1D510", "U+1D511", "U+1D512", "U+1D513", "U+1D514", "U+1D516", "U+1D517", "U+1D518",
   "U+1D519", "U+1D51A", "U+1D51B", "U+1D51C", "U+1D51E", "U+1D51F", "U+1D520", "U+1D521",
   "U+1D522", "U+1D523", "U+1D524", "U+1D525", "U+1D526", "U+1D527", "U+1D528", "U+1D529",
   "U+1D52A", "U+1D52B", "U+1D52C", "U+1D52D", "U+1D52E", "U+1D52F", "U+1D530", "U+1D531",
   "U+1D532", "U+1D533", "U+1D534", "U+1D535", "U+1D536", "U+1D537", "U+1D538", "U+1D539",
   "U+1D53B", "U+1D53C", "U+1D53D", "U+1D53E", "U+1D540", "U+1D541", "U+1D542", "U+1D543",
   "U+1D544", "U+1D546", "U+1D54A", "U+1D54B", "U+1D54C", "U+1D54D", "U+1D54E", "U+1D54F",
   "U+1D550", "U+1D552", "U+1D553", "U+1D554", "U+1D555", "U+1D556", "U+1D557", "U+1D558",
   "U+1D559", "U+1D55A", "U+1D55B", "U+1D55C", "U+1D55D", "U+1D55E", "U+1D55F", "U+1D560",
   "U+1D561", "U+1D562", "U+1D563", "U+1D564", "U+1D565", "U+1D566", "U+1D567", "U+1D568",
   "U+1D569", "U+1D56A", "U+1D56B", "U+1D56C", "U+1D56D", "U+1D56E", "U+1D56F", "U+1D570",
   "U+1D571", "U+1D572", "U+1D573", "U+1D574", "U+1D575", "U+1D576", "U+1D577", "U+1D578",
   "U+1D579", "U+1D57A", "U+1D57B", "U+1D57C", "U+1D57D", "U+1D57E", "U+1D57F", "U+1D580",
   "U+1D581", "U+1D582", "U+1D583", "U+1D584", "U+1D585", "U+1D586", "U+1D587", "U+1D588",
   "U+1D589", "U+1D58A", "U+1D58B", "U+1D58C", "U+1D58D", "U+1D58E", "U+1D58F", "U+1D590",
   "U+1D591", "U+1D592", "U+1D593", "U+1D594", "U+1D595", "U+1D596", "U+1D597", "U+1D598",
   "U+1D599", "U+1D59A", "U+1D59B", "U+1D59C", "U+1D59D", "U+1D59E", "U+1D59F", "U+1D5A0",
   "U+1D5A1", "U+1D5A2", "U+1D5A3", "U+1D5A4", "U+1D5A5", "U+1D5A6", "U+1D5A7", "U+1D5A8",
   "U+1D5A9", "U+1D5AA", "U+1D5AB", "U+1D5AC", "U+1D5AD", "U+1D5AE", "U+1D5AF", "U+1D5B0",
   "U+1D5B1", "U+1D5B2", "U+1D5B3", "U+1D5B4", "U+1D5B5", "U+1D5B6", "U+1D5B7", "U+1D5B8",
   "U+1D5B9", "U+1D5BA", "U+1D5BB", "U+1D5BC", "U+1D5BD", "U+1D5BE", "U+1D5BF", "U+1D5C0",
   "U+1D5C1", "U+1D5C2", "U+1D5C3", "U+1D5C4", "U+1D5C5", "U+1D5C6", "U+1D5C7", "U+1D5C8",
   "U+1D5C9", "U+1D5CA", "U+1D5CB", "U+1D5CC", "U+1D5CD", "U+1D5CE", "U+1D5CF", "U+1D5D0",
   "U+1D5D1", "U+1D5D2", "U+1D5D3", "U+1D5D4", "U+1D5D5", "U+1D5D6", "U+1D5D7", "U+1D5D8",
   "U+1D5D9", "U+1D5DA", "U+1D5DB", "U+1D5DC", "U+1D5DD", "U+1D5DE", "U+1D5DF", "U+1D5E0",
   "U+1D5E1", "U+1D5E2", "U+1D5E3", "U+1D5E4", "U+1D5E5", "U+1D5E6", "U+1D5E7", "U+1D5E8",
   "U+1D5E9", "U+1D5EA", "U+1D5EB", "U+1D5EC", "U+1D5ED", "U+1D5EE", "U+1D5EF", "U+1D5F0",
   "U+1D5F1", "U+1D5F2", "U+1D5F3", "U+1D5F4", "U+1D5F5", "U+1D5F6", "U+1D5F7", "U+1D5F8",
   "U+1D5F9", "U+1D5FA", "U+1D5FB", "U+1D5FC", "U+1D5FD", "U+1D5FE", "U+1D5FF", "U+1D600",
   "U+1D601", "U+1D602", "U+1D603", "U+1D604", "U+1D605", "U+1D606", "U+1D607", "U+1D608",
   "U+1D609", "U+1D60A", "U+1D60B", "U+1D60C", "U+1D60D", "U+1D60E", "U+1D60F", "U+1D610",
   "U+1D611", "U+1D612", "U+1D613", "U+1D614", "U+1D615", "U+1D616", "U+1D617", "U+1D618",
   "U+1D619", "U+1D61A", "U+1D61B", "U+1D61C", "U+1D61D", "U+1D61E", "U+1D61F", "U+1D620",
   "U+1D621", "U+1D622", "U+1D623", "U+1D624", "U+1D625", "U+1D626", "U+1D627", "U+1D628",
   "U+1D629", "U+1D62A", "U+1D62B", "U+1D62C", "U+1D62D", "U+1D62E", "U+1D62F", "U+1D630",
   "U+1D631", "U+1D632", "U+1D633", "U+1D634", "U+1D635", "U+1D636", "U+1D637", "U+1D638",
   "U+1D639", "U+1D63A", "U+1D63B", "U+1D63C", "U+1D63D", "U+1D63E", "U+1D63F", "U+1D640",
   "U+1D641", "U+1D642", "U+1D643", "U+1D644", "U+1D645", "U+1D646", "U+1D647", "U+1D648",
   "U+1D649", "U+1D64A", "U+1D64B", "U+1D64C", "U+1D64D", "U+1D64E", "U+1D64F", "U+1D650",
   "U+1D651", "U+1D652", "U+1D653", "U+1D654", "U+1D655", "U+1D656", "U+1D657", "U+1D658",
   "U+1D659", "U+1D65A", "U+1D65B", "U+1D65C", "U+1D65D", "U+1D65E", "U+1D65F", "U+1D660",
   "U+1D661", "U+1D662", "U+1D663", "U+1D664", "U+1D665", "U+1D666", "U+1D667", "U+1D668",
   "U+1D669", "U+1D66A", "U+1D66B", "U+1D66C", "U+1D66D", "U+1D66E", "U+1D66F", "U+1D670",
   "U+1D671", "U+1D672", "U+1D673", "U+1D674", "U+1D675", "U+1D676", "U+1D677", "U+1D678",
   "U+1D679", "U+1D67A", "U+1D67B", "U+1D67C", "U+1D67D", "U+1D67E", "U+1D67F", "U+1D680",
   "U+1D681", "U+1D682", "U+1D683", "U+1D684", "U+1D685", "U+1D686", "U+1D687", "U+1D688",
   "U+1D689", "U+1D68A", "U+1D68B", "U+1D68C", "U+1D68D", "U+1D68E", "U+1D68F", "U+1D690",
   "U+1D691", "U+1D692", "U+1D693", "U+1D694", "U+1D695", "U+1D696", "U+1D697", "U+1D698",
   "U+1D699", "U+1D69A", "U+1D69B", "U+1D69C", "U+1D69D", "U+1D69E", "U+1D69F", "U+1D6A0",
   "U+1D6A1", "U+1D6A2", "U+1D6A3", "U+1D6A4", "U+1D6A5", "U+1D6A8", "U+1D6A9", "U+1D6AA",
   "U+1D6AB", "U+1D6AC", "U+1D6AD", "U+1D6AE", "U+1D6AF", "U+1D6B0", "U+1D6B1", "U+1D6B2",
   "U+1D6B3", "U+1D6B4", "U+1D6B5", "U+1D6B6", "U+1D6B7", "U+1D6B8", "U+1D6B9", "U+1D6BA",
   "U+1D6BB", "U+1D6BC", "U+1D6BD", "U+1D6BE", "U+1D6BF", "U+1D6C0", "U+1D6C2", "U+1D6C3",
   "U+1D6C4", "U+1D6C5", "U+1D6C6", "U+1D6C7", "U+1D6C8", "U+1D6C9", "U+1D6CA", "U+1D6CB",
   "U+1D6CC", "U+1D6CD", "U+1D6CE", "U+1D6CF", "U+1D6D0", "U+1D6D1", "U+1D6D2", "U+1D6D3",
   "U+1D6D4", "U+1D6D5", "U+1D6D6", "U+1D6D7", "U+1D6D8", "U+1D6D9", "U+1D6DA", "U+1D6DC",
   "U+1D6DD", "U+1D6DE", "U+1D6DF", "U+1D6E0", "U+1D6E1", "U+1D6E2", "U+1D6E3", "U+1D6E4",
   "U+1D6E5", "U+1D6E6", "U+1D6E7", "U+1D6E8", "U+1D6E9", "U+1D6EA", "U+1D6EB", "U+1D6EC",
   "U+1D6ED", "U+1D6EE", "U+1D6EF", "U+1D6F0", "U+1D6F1", "U+1D6F2", "U+1D6F3", "U+1D6F4",
   "U+1D6F5", "U+1D6F6", "U+1D6F7", "U+1D6F8", "U+1D6F9", "U+1D6FA", "U+1D6FC", "U+1D6FD",
   "U+1D6FE", "U+1D6FF", "U+1D700", "U+1D701", "U+1D702", "U+1D703", "U+1D704", "U+1D705",
   "U+1D706", "U+1D707", "U+1D708", "U+1D709", "U+1D70A", "U+1D70B", "U+1D70C", "U+1D70D",
   "U+1D70E", "U+1D70F", "U+1D710", "U+1D711", "U+1D712", "U+1D713", "U+1D714", "U+1D716",
   "U+1D717", "U+1D718", "U+1D719", "U+1D71A", "U+1D71B", "U+1D71C", "U+1D71D", "U+1D71E",
   "U+1D71F", "U+1D720", "U+1D721", "U+1D722", "U+1D723", "U+1D724", "U+1D725", "U+1D726",
   "U+1D727", "U+1D728", "U+1D729", "U+1D72A", "U+1D72B", "U+1D72C", "U+1D72D", "U+1D72E",
   "U+1D72F", "U+1D730", "U+1D731", "U+1D732", "U+1D733", "U+1D734", "U+1D736", "U+1D737",
   "U+1D738", "U+1D739", "U+1D73A", "U+1D73B", "U+1D73C", "U+1D73D", "U+1D73E", "U+1D73F",
   "U+1D740", "U+1D741", "U+1D742", "U+1D743", "U+1D744", "U+1D745", "U+1D746", "U+1D747",
   "U+1D748", "U+1D749", "U+1D74A", "U+1D74B", "U+1D74C", "U+1D74D", "U+1D74E", "U+1D750",
   "U+1D751", "U+1D752", "U+1D753", "U+1D754", "U+1D755", "U+1D756", "U+1D757", "U+1D758",
   "U+1D759", "U+1D75A", "U+1D75B", "U+1D75C", "U+1D75D", "U+1D75E", "U+1D75F", "U+1D760",
   "U+1D761", "U+1D762", "U+1D763", "U+1D764", "U+1D765", "U+1D766", "U+1D767", "U+1D768",
   "U+1D769", "U+1D76A", "U+1D76B", "U+1D76C", "U+1D76D", "U+1D76E", "U+1D770", "U+1D771",
   "U+1D772", "U+1D773", "U+1D774", "U+1D775", "U+1D776", "U+1D777", "U+1D778", "U+1D779",
   "U+1D77A", "U+1D77B", "U+1D77C", "U+1D77D", "U+1D77E", "U+1D77F", "U+1D780", "U+1D781",
   "U+1D782", "U+1D783", "U+1D784", "U+1D785", "U+1D786", "U+1D787", "U+1D788", "U+1D78A",
   "U+1D78B", "U+1D78C", "U+1D78D", "U+1D78E", "U+1D78F", "U+1D790", "U+1D791", "U+1D792",
   "U+1D793", "U+1D794", "U+1D795", "U+1D796", "U+1D797", "U+1D798", "U+1D799", "U+1D79A",
   "U+1D79B", "U+1D79C", "U+1D79D", "U+1D79E", "U+1D79F", "U+1D7A0", "U+1D7A1", "U+1D7A2",
   "U+1D7A3", "U+1D7A4", "U+1D7A5", "U+1D7A6", "U+1D7A7", "U+1D7A8", "U+1D7AA", "U+1D7AB",
   "U+1D7AC", "U+1D7AD", "U+1D7AE", "U+1D7AF", "U+1D7B0", "U+1D7B1", "U+1D7B2", "U+1D7B3",
   "U+1D7B4", "U+1D7B5", "U+1D7B6", "U+1D7B7", "U+1D7B8", "U+1D7B9", "U+1D7BA", "U+1D7BB",
   "U+1D7BC", "U+1D7BD", "U+1D7BE", "U+1D7BF", "U+1D7C0", "U+1D7C1", "U+1D7C2", "U+1D7C4",
   "U+1D7C5", "U+1D7C6", "U+1D7C7", "U+1D7C8", "U+1D7C9", "U+1D7CA", "U+1D7CB", "U+1DF00",
   "U+1DF01", "U+1DF02", "U+1DF03", "U+1DF04", "U+1DF05", "U+1DF06", "U+1DF07", "U+1DF08",
   "U+1DF09", "U+1DF0B", "U+1DF0C", "U+1DF0D", "U+1DF0E", "U+1DF0F", "U+1DF10", "U+1DF11",
   "U+1DF12", "U+1DF13", "U+1DF14", "U+1DF15", "U+1DF16", "U+1DF17", "U+1DF18", "U+1DF19",
   "U+1DF1A", "U+1DF1B", "U+1DF1C", "U+1DF1D", "U+1DF1E", "U+1E900", "U+1E901", "U+1E902",
   "U+1E903", "U+1E904", "U+1E905", "U+1E906", "U+1E907", "U+1E908", "U+1E909", "U+1E90A",
   "U+1E90B", "U+1E90C", "U+1E90D", "U+1E90E", "U+1E90F", "U+1E910", "U+1E911", "U+1E912",
   "U+1E913", "U+1E914", "U+1E915", "U+1E916", "U+1E917", "U+1E918", "U+1E919", "U+1E91A",
   "U+1E91B", "U+1E91C", "U+1E91D", "U+1E91E", "U+1E91F", "U+1E920", "U+1E921", "U+1E922",
   "U+1E923", "U+1E924", "U+1E925", "U+1E926", "U+1E927", "U+1E928", "U+1E929", "U+1E92A",
   "U+1E92B", "U+1E92C", "U+1E92D", "U+1E92E", "U+1E92F", "U+1E930", "U+1E931", "U+1E932",
   "U+1E933", "U+1E934", "U+1E935", "U+1E936", "U+1E937", "U+1E938", "U+1E939", "U+1E93A",
   "U+1E93B", "U+1E93C", "U+1E93D", "U+1E93E", "U+1E93F", "U+1E940", "U+1E941", "U+1E942",
   "U+1E943", "U+1F130", "U+1F131", "U+1F132", "U+1F133", "U+1F134", "U+1F135", "U+1F136",
   "U+1F137", "U+1F138", "U+1F139", "U+1F13A", "U+1F13B", "U+1F13C", "U+1F13D", "U+1F13E",
   "U+1F13F", "U+1F140", "U+1F141", "U+1F142", "U+1F143", "U+1F144", "U+1F145", "U+1F146",
   "U+1F147", "U+1F148", "U+1F149", "U+1F150", "U+1F151", "U+1F152", "U+1F153", "U+1F154",
   "U+1F155", "U+1F156", "U+1F157", "U+1F158", "U+1F159", "U+1F15A", "U+1F15B", "U+1F15C",
   "U+1F15D", "U+1F15E", "U+1F15F", "U+1F160", "U+1F161", "U+1F162", "U+1F163", "U+1F164",
   "U+1F165", "U+1F166", "U+1F167", "U+1F168", "U+1F169", "U+1F170", "U+1F171", "U+1F172",
   "U+1F173", "U+1F174", "U+1F175", "U+1F176", "U+1F177", "U+1F178", "U+1F179", "U+1F17A",
   "U+1F17B", "U+1F17C", "U+1F17D", "U+1F17E", "U+1F17F", "U+1F180", "U+1F181", "U+1F182",
   "U+1F183", "U+1F184", "U+1F185", "U+1F186", "U+1F187", "U+1F188", "U+1F189"}

SeqHas(q, x) == \E i \in DOMAIN q : q[i] = x
Place(q, c) == CHOOSE i \in DOMAIN q : q[i] = c

Digits == {DecimalDigits[i] : i \in DOMAIN DecimalDigits}

\* int() of a decimal digit
DigitValue(c) == (Place(DecimalDigits, c) - 1) % 10

\* [a-z] and [A-Z]
LowerLetters == <<"a", "b", "c", "d", "e", "f", "g", "h", "i", "j", "k", "l", "m",
                  "n", "o", "p", "q", "r", "s", "t", "u", "v", "w", "x", "y", "z">>
UpperLetters == <<"A", "B", "C", "D", "E", "F", "G", "H", "I", "J", "K", "L", "M",
                  "N", "O", "P", "Q", "R", "S", "T", "U", "V", "W", "X", "Y", "Z">>
IsLower(c) == \E i \in DOMAIN LowerLetters : LowerLetters[i] = c
IsUpper(c) == \E i \in DOMAIN UpperLetters : UpperLetters[i] = c
IsLetter(c) == IsLower(c) \/ IsUpper(c)


\* What str.upper() and str.lower() write for one character: one character
\* or several (the sharp s becomes SS, the dotted capital I an i and a
\* combining dot above).
UpperChanged == {UpperKeys[i] : i \in DOMAIN UpperKeys}
UpperLong == {UpperLongKeys[i] : i \in DOMAIN UpperLongKeys}
LowerChanged == {LowerKeys[i] : i \in DOMAIN LowerKeys}
UpperCh(c) ==
  IF c \in UpperLong THEN UpperLongValues[Place(UpperLongKeys, c)]
  ELSE IF c \in UpperChanged THEN <<UpperValues[Place(UpperKeys, c)]>>
  ELSE <<c>>
LowerCh(c) ==
  IF c = "U+0130" THEN <<"i", "U+0307">>
  ELSE IF c \in LowerChanged THEN <<LowerValues[Place(LowerKeys, c)]>>
  ELSE <<c>>

\* str.upper()
RECURSIVE Upper(_)
Upper(s) == IF s = <<>> THEN <<>> ELSE UpperCh(Head(s)) \o Upper(Tail(s))

\* The capital sigma at position i ends a word: the nearest character before
\* it that is not case-ignorable is cased, and the nearest such character
\* after it, if there is one, is not.
NearestBefore(s, i) ==
  LET P == {j \in 1..(i - 1) : s[j] \notin CaseIgnorable}
  IN  IF P = {} THEN 0 ELSE CHOOSE j \in P : \A k \in P : k <= j
NearestAfter(s, i) ==
  LET P == {j \in (i + 1)..Len(s) : s[j] \notin CaseIgnorable}
  IN  IF P = {} THEN 0 ELSE CHOOSE j \in P : \A k \in P : j <= k
FinalSigma(s, i) ==
  /\ NearestBefore(s, i) # 0 /\ s[NearestBefore(s, i)] \in Cased
  /\ NearestAfter(s, i) = 0 \/ s[NearestAfter(s, i)] \notin Cased

\* str.lower()
RECURSIVE LowerAt(_, _)
LowerAt(s, i) ==
  IF i > Len(s) THEN <<>>
  ELSE (IF s[i] = "U+03A3"
        THEN (IF FinalSigma(s, i) THEN <<"U+03C2">> ELSE <<"U+03C3">>)
        ELSE LowerCh(s[i])) \o LowerAt(s, i + 1)
Lower(s) == LowerAt(s, 1)

\* str.strip()
RECURSIVE LStrip(_)
LStrip(s) == IF s # <<>> /\ Head(s) \in Whitespace THEN LStrip(Tail(s)) ELSE s
RECURSIVE RStrip(_)
RStrip(s) ==
  IF s # <<>> /\ s[Len(s)] \in Whitespace THEN RStrip(SubSeq(s, 1, Len(s) - 1)) ELSE s
Strip(s) == RStrip(LStrip(s))

AllDigits(s) == \A i \in DOMAIN s : s[i] \in Digits
AllLetters(s) == \A i \in DOMAIN s : IsLetter(s[i])

\* s[a:b] of the code, 1-based and inclusive
Sub(s, a, b) == SubSeq(s, a, b)
From(s, a) == SubSeq(s, a, Len(s))

\* `$` of a Python pattern also matches before a newline that ends the string.
Chomp(s) == IF s # <<>> /\ s[Len(s)] = "\n" THEN SubSeq(s, 1, Len(s) - 1) ELSE s

\* ^(\d{6}\.(SZ|SH)|\d{5}\.HK|[A-Za-z]{1,5}\.US)$, without the `$`
StandardCore(s) ==
  \/ /\ Len(s) = 9
     /\ AllDigits(Sub(s, 1, 6))
     /\ From(s, 7) \in {<<".", "S", "Z">>, <<".", "S", "H">>}
  \/ /\ Len(s) = 8
     /\ AllDigits(Sub(s, 1, 5))
     /\ From(s, 6) = <<".", "H", "K">>
  \/ /\ Len(s) \in 4..8
     /\ AllLetters(Sub(s, 1, Len(s) - 3))
     /\ From(s, Len(s) - 2) = <<".", "U", "S">>

IsStandard(s) == StandardCore(Chomp(s))

\* ^\d{6}$
Bare6(t) == Len(t) = 6 /\ AllDigits(t)

\* ^(sh|sz)(\d{6})$, on the lower-cased text
ShSzPrefixed(l) ==
  Len(l) = 8 /\ Sub(l, 1, 2) \in {<<"s", "h">>, <<"s", "z">>} /\ AllDigits(From(l, 3))

\* ^\d{6}\.[A-Za-z]{2,3}$
SixDotSuffix(t) ==
  /\ Len(t) \in 9..10
  /\ AllDigits(Sub(t, 1, 6))
  /\ t[7] = "."
  /\ AllLetters(From(t, 8))

\* suffix in ['SHA', 'SHH', 'SS'] or suffix.startswith('SH')
ShanghaiAlias(x) ==
  \/ x \in {<<"S", "H", "A">>, <<"S", "H", "H">>, <<"S", "S">>}
  \/ Sub(x, 1, 2) = <<"S", "H">>

\* suffix in ['SZE', 'SZA', 'SZ0'] or suffix.startswith('SZ')
ShenzhenAlias(x) ==
  \/ x \in {<<"S", "Z", "E">>, <<"S", "Z", "A">>, <<"S", "Z", "0">>}
  \/ Sub(x, 1, 2) = <<"S", "Z">>

\* ^(sh|sz)\.\d{6}$, on the lower-cased text
ShSzDotted(l) ==
  /\ Len(l) = 9
  /\ Sub(l, 1, 3) \in {<<"s", "h", ".">>, <<"s", "z", ".">>}
  /\ AllDigits(From(l, 4))

\* ^hk(\d{1,5})$, on the lower-cased text
HkPrefixed(l) ==
  Len(l) \in 3..7 /\ Sub(l, 1, 2) = <<"h", "k">> /\ AllDigits(From(l, 3))

\* ^(\d{1,5})\.hk$, on the lower-cased text
HkSuffixed(l) ==
  /\ Len(l) \in 4..8
  /\ AllDigits(Sub(l, 1, Len(l) - 3))
  /\ From(l, Len(l) - 2) = <<".", "h", "k">>

\* ^us\.([a-zA-Z]{1,5})$, on the lower-cased text
UsPrefixed(l) ==
  Len(l) \in 4..8 /\ Sub(l, 1, 3) = <<"u", "s", ".">> /\ AllLetters(From(l, 4))

\* ^[a-zA-Z]{1,5}$
BareTicker(t) == Len(t) \in 1..5 /\ AllLetters(t)

\* str.zfill(5)
RECURSIVE Zfill5(_)
Zfill5(d) == IF Len(d) >= 5 THEN d ELSE Zfill5(<<"0">> \o d)

\* code.startswith(('6', '9', '5')) and code.startswith(('0', '1', '2', '3'))
ShanghaiLead == {"6", "9", "5"}
ShenzhenLead == {"0", "1", "2", "3"}

\* The suffix the bare 6-digit rule appends: f"{code}.SH" / f"{code}.SZ"
BareSuffixAlias(m) == IF m = "SH" THEN <<".", "S", "S">> ELSE <<".", "S", "Z">>
BareSuffix(m) == IF m = "SH" THEN <<".", "S", "H">> ELSE <<".", "S", "Z">>

\* The rules of _validate_and_correct_stock_code in the order of the code, the
\* first that applies returns: t is ts_code.strip().upper(), l is t.lower().
RuleResult(t, l) ==
  IF Bare6(t) /\ t[1] \in ShanghaiLead THEN t \o BareSuffix("SH")
  ELSE IF Bare6(t) /\ t[1] \in ShenzhenLead THEN t \o BareSuffix("SZ")
  ELSE IF ShSzPrefixed(l) THEN From(l, 3) \o <<".">> \o Upper(Sub(l, 1, 2))
  ELSE IF SixDotSuffix(t) /\ ShanghaiAlias(Upper(From(t, 8)))
       THEN Sub(t, 1, 6) \o <<".", "S", "H">>
  ELSE IF SixDotSuffix(t) /\ ShenzhenAlias(Upper(From(t, 8)))
       THEN Sub(t, 1, 6) \o <<".", "S", "Z">>
  ELSE IF ShSzDotted(l) THEN From(l, 4) \o <<".">> \o Upper(Sub(l, 1, 2))
  ELSE IF HkPrefixed(l) THEN Zfill5(From(l, 3)) \o <<".", "H", "K">>
  ELSE IF HkSuffixed(l) THEN Zfill5(Sub(l, 1, Len(l) - 3)) \o <<".", "H", "K">>
  ELSE IF UsPrefixed(l) THEN Upper(From(l, 4)) \o <<".", "U", "S">>
  ELSE IF BareTicker(t) THEN t \o <<".", "U", "S">>
  ELSE t
CorrectedCode(t) == RuleResult(t, Lower(t))

\* _validate_and_correct_stock_code: a code of the standard form is returned
\* as it is, any other goes through the rules.
validate_and_correct_stock_code(s) ==
  IF IsStandard(s) THEN s ELSE CorrectedCode(Upper(Strip(s)))

\* The inputs the normalizer is applied to: optional whitespace, an optional
\* market prefix, a body of digits or letters, an optional suffix, optional
\* whitespace, in every combination. The no-break space stands for the
\* whitespace outside ASCII, the sharp s for the letters whose upper case is
\* not one character.
Leads == {<<>>,
          <<" ">>,
          <<"\r">>}
Trails == {<<>>,
           <<" ">>,
           <<"\n">>,
           <<"\f">>,
           <<" ">>}
Prefixes ==
  {<<>>,
   <<"s", "h">>,
   <<"S", "Z">>,
   <<"s", "h", ".">>,
   <<"S", "Z", ".">>,
   <<"h", "k">>,
   <<"H", "K">>,
   <<"u", "s", ".">>,
   <<"U", "S", ".">>}
Bodies ==
  {<<"0", "0", "0", "0", "0", "1">>,
   <<"1", "0", "0", "0", "0", "1">>,
   <<"2", "0", "0", "0", "0", "1">>,
   <<"3", "0", "0", "0", "0", "1">>,
   <<"4", "0", "0", "0", "0", "1">>,
   <<"5", "0", "0", "0", "0", "1">>,
   <<"6", "0", "0", "0", "0", "1">>,
   <<"7", "0", "0", "0", "0", "1">>,
   <<"8", "0", "0", "0", "0", "1">>,
   <<"9", "0", "0", "0", "0", "1">>,
   <<"0", "0", "7", "0", "0">>,
   <<"7", "0", "0">>,
   <<"1", "2", "3", "4", "5", "6", "7">>,
   <<"a", "a", "p", "l">>,
   <<"A", "A", "P", "L">>,
   <<"A", "a">>,
   <<"a", "b", "c", "d", "e", "f">>,
   <<"a", "-", "b">>,
   <<"ß">>,
   <<>>}
Suffixes ==
  {<<>>,
   <<".", "S", "H">>,
   <<".", "S", "Z">>,
   <<".", "s", "h">>,
   <<".", "s", "z">>,
   <<".", "S", "S">>,
   <<".", "S", "H", "A">>,
   <<".", "S", "Z", "E">>,
   <<".", "S", "H", "X">>,
   <<".", "A", "B", "C">>,
   <<".", "H", "K">>,
   <<".", "h", "k">>,
   <<".", "U", "S">>,
   <<".", "u", "s">>,
   <<".", "S">>}

\* Inputs with characters outside Latin-1: whitespace (ideographic space, em
\* space), decimal digits of other scripts (fullwidth, Arabic-Indic,
\* Devanagari), and letters whose case mapping reaches or leaves ASCII (long s,
\* Kelvin sign, the fi ligature, dotted capital I, capital sigma).
WideInputs ==
  {<<"U+3000", "6", "0", "0", "0", "0", "1">>,
   <<"6", "0", "0", "0", "0", "1", "U+2003">>,
   <<"U+3000", "6", "0", "0", "0", "0", "1", ".", "S", "H">>,
   <<"U+FF16", "U+FF10", "U+FF10", "U+FF10", "U+FF10", "U+FF11">>,
   <<"U+0660", "U+0660", "U+0660", "U+0660", "U+0660", "U+0661">>,
   <<"U+FF16", "0", "0", "0", "0", "1">>,
   <<"6", "U+0966", "U+0966", "U+0966", "U+0966", "U+0967">>,
   <<"0", "U+FF10", "U+FF10", "U+FF10", "U+FF10", "U+FF11">>,
   <<"U+FF16", "U+FF10", "U+FF10", "U+FF10", "U+FF10", "U+FF11", ".", "S", "H">>,
   <<"U+FF16", "U+FF10", "U+FF10", "U+FF10", "U+FF10", "U+FF11", ".", "s", "h">>,
   <<"s", "z", "U+FF10", "U+FF10", "U+FF10", "U+FF10", "U+FF10", "U+FF11">>,
   <<"h", "k", "U+FF17", "U+FF10", "U+FF10">>,
   <<"U+0660", "U+0660", "U+0667", "U+0660", "U+0660", ".", "H", "K">>,
   <<"U+017F", "h", "6", "0", "0", "0", "0", "1">>,
   <<"6", "0", "0", "0", "0", "1", ".", "U+017F", "h">>,
   <<"h", "U+212A", "7", "0", "0">>,
   <<"7", "0", "0", ".", "h", "U+212A">>,
   <<"u", "U+017F", ".", "a", "a", "p", "l">>,
   <<"m", "U+017F", "f", "t">>,
   <<"U+FB01">>,
   <<"U+0130">>,
   <<"U+212A">>,
   <<"A", "U+03A3">>,
   <<"a", "a", "p", "l", ".", "U", "S", "U+2028">>}

Inputs ==
  {a \o b \o c \o d \o e :
     a \in Leads, b \in Prefixes, c \in Bodies, d \in Suffixes, e \in Trails}
  \cup WideInputs

\* corrected = self._validate_and_correct_stock_code(ts_code)
NormalizeOnce ==
  /\ npc = "input"
  /\ once' = validate_and_correct_stock_code(code)
  /\ npc' = "once"
  /\ UNCHANGED <<code, twice>>
  /\ UNCHANGED nonNormVars

\* The corrected code is given to the normalizer again, as the data source
\* does with a code the command layer corrected.
NormalizeAgain ==
  /\ npc = "once"
  /\ twice' = validate_and_correct_stock_code(once)
  /\ npc' = "twice"
  /\ UNCHANGED <<code, once>>
  /\ UNCHANGED nonNormVars

NormInit ==
  /\ InitFetch(0) /\ InitChart({TRUE}) /\ InitSource({TRUE}) /\ InitNorm(Inputs)
  /\ InitMore

NormNext == NormalizeOnce \/ NormalizeAgain

NormSpec == NormInit /\ [][NormNext]_vars

\* ------------------------------------- what an operation does with a symbol
\* str.startswith, str.endswith, str.split('.')[0]
StartsWith(s, pre) == Len(s) >= Len(pre) /\ SubSeq(s, 1, Len(pre)) = pre
EndsWith(s, suf) == Len(s) >= Len(suf) /\ SubSeq(s, Len(s) - Len(suf) + 1, Len(s)) = suf
RECURSIVE SplitHead(_)
SplitHead(s) ==
  IF s = <<>> \/ Head(s) = "." THEN <<>> ELSE <<Head(s)>> \o SplitHead(Tail(s))

DotSH == <<".", "S", "H">>
DotSZ == <<".", "S", "Z">>
DotHK == <<".", "H", "K">>
DotUS == <<".", "U", "S">>

\* The first lines of get_daily, get_realtime, get_hourly and get_minutely:
\* a code the normalizer changed replaces the argument, an unchanged one must
\* match the pattern.
CallerCheck(ts) ==
  LET corrected == validate_and_correct_stock_code(ts)
  IN  IF corrected # ts THEN [ok |-> TRUE, sym |-> corrected]
      ELSE IF ~IsStandard(ts) THEN [ok |-> FALSE, sym |-> ts]
      ELSE [ok |-> TRUE, sym |-> ts]

\* market_type of get_daily; the A-share, ETF and index types share a provider.
MarketType(ts) ==
  IF EndsWith(ts, DotHK) THEN "HK"
  ELSE IF EndsWith(ts, DotUS) THEN "US"
  ELSE "A"

Routed(op, ok, provider, sym) ==
  [op |-> op, ok |-> ok, provider |-> provider, sym |-> sym, arg |-> SplitHead(sym)]

\* get_daily up to its first provider call.
DailyRoute(ts, dates) ==
  LET c == CallerCheck(ts)
      m == MarketType(c.sym)
  IN  IF ~c.ok THEN Routed("get_daily", FALSE, "none", c.sym)
      ELSE IF DatesRaise(dates) THEN Routed("get_daily", TRUE, "none", c.sym)
      ELSE IF m = "A" THEN Routed("get_daily", TRUE, "stock_zh_a_hist", c.sym)
      ELSE IF m = "HK"
           THEN (IF ~enableHk THEN Routed("get_daily", TRUE, "none", c.sym)
                 ELSE Routed("get_daily", TRUE, "stock_hk_hist", c.sym))
      ELSE IF ~enableUs THEN Routed("get_daily", TRUE, "none", c.sym)
      ELSE Routed("get_daily", TRUE, "stock_us_spot_em", c.sym)

\* get_realtime up to its provider call.
RealtimeRoute(ts) ==
  LET c == CallerCheck(ts)
  IN  IF ~c.ok THEN Routed("get_realtime", FALSE, "none", c.sym)
      ELSE IF EndsWith(c.sym, DotSH) \/ EndsWith(c.sym, DotSZ)
           THEN Routed("get_realtime", TRUE, "stock_zh_a_spot_em", c.sym)
      ELSE IF EndsWith(c.sym, DotHK)
           THEN Routed("get_realtime", TRUE, "stock_hk_spot_em", c.sym)
      ELSE IF EndsWith(c.sym, DotUS)
           THEN (IF ~enableUs THEN Routed("get_realtime", TRUE, "none", c.sym)
                 ELSE Routed("get_realtime", TRUE, "stock_us_spot_em", c.sym))
      ELSE Routed("get_realtime", TRUE, "none", c.sym)

\* get_hourly and get_minutely up to their provider call.
IntradayRoute(op, ts) ==
  LET c == CallerCheck(ts)
  IN  IF ~c.ok THEN Routed(op, FALSE, "none", c.sym)
      ELSE IF EndsWith(c.sym, DotSH) \/ EndsWith(c.sym, DotSZ)
           THEN Routed(op, TRUE, "stock_zh_a_hist_min_em", c.sym)
      ELSE Routed(op, TRUE, "none", c.sym)

\* AkStockDataSource._validate_stock_code
ValidateRoute(ts) ==
  Routed("_validate_stock_code",
         IsStandard(ts) \/ validate_and_correct_stock_code(ts) # ts, "none", ts)

Apply(r) ==
  /\ route = NoRoute
  /\ route' = r
  /\ UNCHANGED <<fetchVars, chartVars, srcVars, normVars, cmdVars, calcVars>>

RouteDaily == \E dates \in DateArgs : Apply(DailyRoute(code, dates))
RouteRealtime == Apply(RealtimeRoute(code))
RouteHourly == Apply(IntradayRoute("get_hourly", code))
RouteMinutely == Apply(IntradayRoute("get_minutely", code))
RouteValidate == Apply(ValidateRoute(code))

\* The symbols the operations are applied to.
RoutePrefixes == {<<>>, <<"s", "h">>, <<"h", "k">>}
RouteInputs ==
  {a \o b \o c \o d \o e :
     a \in Leads, b \in RoutePrefixes, c \in Bodies, d \in Suffixes, e \in Trails}
  \cup WideInputs

RouteInit ==
  /\ InitFetch(0) /\ InitChart({TRUE}) /\ InitNorm(RouteInputs)
  /\ enableUs \in BOOLEAN /\ enableHk \in BOOLEAN /\ enableCrypto = TRUE
  /\ srcCall = NoCall /\ srcResult = [t |-> "none", v |-> "none"] /\ srcKeys = {}
  /\ srcTrace = <<>>
  /\ InitRoute /\ InitCmd({TRUE}) /\ InitCalc

RouteNext ==
  RouteDaily \/ RouteRealtime \/ RouteHourly \/ RouteMinutely \/ RouteValidate

RouteSpec == RouteInit /\ [][RouteNext]_vars

\* ------------------------------------------------ stock and index commands
\* The two implementations of each command: the plugin's own method and the
\* method of StockCommands.
Impls == {"main", "commands"}

\* _is_index_code, the same in both
IsIndexCode(ts) ==
  \/ EndsWith(ts, DotSH) /\ StartsWith(ts, <<"0", "0", "0">>)
  \/ EndsWith(ts, DotSZ) /\ StartsWith(ts, <<"3", "9", "9">>)

\* `corrected != ts_code and re.match(self.stock_code_pattern, corrected)`
CorrectedAny(ts, corrected) == corrected # ts
Corrected(ts, corrected) == corrected # ts /\ IsStandard(corrected)

\* _validate_stock_code of the command layer, the same in both
CmdValidate(ts) ==
  LET corrected == validate_and_correct_stock_code(ts)
  IN  IF IsStandard(ts) THEN [ok |-> TRUE, sym |-> ts]
      ELSE IF autoCorrect /\ Corrected(ts, corrected) THEN [ok |-> TRUE, sym |-> corrected]
      ELSE [ok |-> FALSE, sym |-> ts]

\* The first lines of price, price_now and price_chart: the format message,
\* the redirect to the index command, or the call of the data source.
StockFront(ts) ==
  LET v == CmdValidate(ts)
  IN  IF ~v.ok THEN [reply |-> "format", sym |-> ts]
      ELSE IF IsIndexCode(v.sym) THEN [reply |-> "redirect", sym |-> v.sym]
      ELSE [reply |-> "call", sym |-> v.sym]

\* self.index_map, keyed by the lower-cased argument
IndexMap(l) ==
  IF l = <<"s", "h">> THEN <<"0", "0", "0", "0", "0", "1">> \o DotSH
  ELSE IF l = <<"s", "z">> THEN <<"3", "9", "9", "0", "0", "1">> \o DotSZ
  ELSE IF l = <<"c", "y", "b">> THEN <<"3", "9", "9", "0", "0", "6">> \o DotSZ
  ELSE IF l = <<"z", "x", "b">> THEN <<"3", "9", "9", "0", "0", "5">> \o DotSZ
  ELSE IF l = <<"h", "s", "3", "0", "0">> THEN <<"0", "0", "0", "3", "0", "0">> \o DotSH
  ELSE IF l = <<"z", "z", "5", "0", "0">> THEN <<"0", "0", "0", "9", "0", "5">> \o DotSH
  ELSE <<>>
InIndexMap(l) == IndexMap(l) # <<>>

\* re.match(r'^\d{6}$', index_code)
SixDigits(s) == Bare6(Chomp(s))

ShanghaiIndexLead(s) ==
  StartsWith(s, <<"0", "0", "0">>) \/ StartsWith(s, <<"8", "8", "0">>)
ShenzhenIndexLead(s) == StartsWith(s, <<"3", "9", "9">>)

\* StockCommands._normalize_index_code followed by the final test
IndexByCommands(ic) ==
  LET n == IF InIndexMap(Lower(ic)) THEN IndexMap(Lower(ic))
           ELSE IF SixDigits(ic) /\ ShanghaiIndexLead(ic) THEN ic \o DotSH
           ELSE IF SixDigits(ic) /\ ShenzhenIndexLead(ic) THEN ic \o DotSZ
           ELSE ic
  IN  [ok |-> IsIndexCode(n), sym |-> n]

\* The same decision written inline in index_price and plot_index of main.py
IndexInline(ic) ==
  IF InIndexMap(Lower(ic))
  THEN [ok |-> IsIndexCode(IndexMap(Lower(ic))), sym |-> IndexMap(Lower(ic))]
  ELSE IF ~IsIndexCode(ic)
  THEN (IF SixDigits(ic)
        THEN (IF ShanghaiIndexLead(ic)
              THEN [ok |-> IsIndexCode(ic \o DotSH), sym |-> ic \o DotSH]
              ELSE IF ShenzhenIndexLead(ic)
              THEN [ok |-> IsIndexCode(ic \o DotSZ), sym |-> ic \o DotSZ]
              ELSE [ok |-> FALSE, sym |-> ic])
        ELSE [ok |-> FALSE, sym |-> ic])
  ELSE [ok |-> IsIndexCode(ic), sym |-> ic]

IndexFront(impl, ic) == IF impl = "main" THEN IndexInline(ic) ELSE IndexByCommands(ic)

\* query_code of index_price, and what get_index_realtime looks up: the
\* provider's table is fetched first, whatever the code.
QueryCode(ic) ==
  IF EndsWith(ic, DotSH) THEN <<"s", "h">> \o SplitHead(ic)
  ELSE IF EndsWith(ic, DotSZ) THEN <<"s", "z">> \o SplitHead(ic)
  ELSE ic
IndexRealtimeRoute(q) ==
  [op |-> "get_index_realtime", ok |-> TRUE, provider |-> "stock_zh_index_spot_em",
   sym |-> q,
   arg |-> IF StartsWith(q, <<"s", "h">>) \/ StartsWith(q, <<"s", "z">>)
           THEN From(q, 3) ELSE q]

\* The period argument of price_chart.
Periods == {"daily", "hourly", "5min", "weekly"}
PeriodRoute(period, ts, dates) ==
  IF period = "daily" THEN DailyRoute(ts, dates)
  ELSE IF period = "hourly" THEN IntradayRoute("get_hourly", ts)
  ELSE IF period \in {"5min", "15min", "30min", "60min"} THEN IntradayRoute("get_minutely", ts)
  ELSE NoRoute

\* A command given `code`: its reply is a message, or it goes on with what the
\* data source returned for the symbol.
Command(name, impl, answer, sym, r) ==
  /\ cmd = NoCmd
  /\ cmd' = [name |-> name, impl |-> impl, reply |-> answer, sym |-> sym]
  /\ route' = r
  /\ UNCHANGED autoCorrect
  /\ UNCHANGED <<fetchVars, chartVars, srcVars, normVars, calcVars>>

\* price, price_now and price_chart after their first lines, given what the
\* data source does with the symbol.
StockCommand(name, impl, f, r) ==
  IF f.reply = "call" THEN Command(name, impl, "data", f.sym, r)
  ELSE Command(name, impl, f.reply, f.sym, NoRoute)

history_price(impl) ==
  /\ cmd = NoCmd
  /\ LET f == StockFront(code)
     IN  \E dates \in DateArgs :
           StockCommand("price", impl, f, DailyRoute(f.sym, dates))

realtime_price(impl) ==
  /\ cmd = NoCmd
  /\ LET f == StockFront(code)
     IN  StockCommand("price_now", impl, f, RealtimeRoute(f.sym))

plot_price(impl) ==
  /\ cmd = NoCmd
  /\ LET f == StockFront(code)
     IN  \E period \in Periods :
           \E dates \in (IF period = "daily" THEN DateArgs ELSE {"neither"}) :
             IF f.reply = "call" /\ PeriodRoute(period, f.sym, dates) = NoRoute
             THEN Command("price_chart", impl, "unsupported", f.sym, NoRoute)
             ELSE StockCommand("price_chart", impl, f, PeriodRoute(period, f.sym, dates))

index_price(impl) ==
  /\ cmd = NoCmd
  /\ LET f == IndexFront(impl, code)
     IN  IF f.ok
         THEN Command("index", impl, "data", f.sym, IndexRealtimeRoute(QueryCode(f.sym)))
         ELSE Command("index", impl, "invalid", f.sym, NoRoute)

plot_index(impl) ==
  /\ cmd = NoCmd
  /\ LET f == IndexFront(impl, code)
     IN  \E dates \in DateArgs :
           IF f.ok THEN Command("index_chart", impl, "data", f.sym, DailyRoute(f.sym, dates))
           ELSE Command("index_chart", impl, "invalid", f.sym, NoRoute)

\* The arguments the commands are given: the stock symbols and, for the index
\* commands, aliases and index codes.
CmdBodies ==
  Bodies \cup
  {<<"3", "9", "9", "0", "0", "1">>,
   <<"0", "0", "0", "3", "0", "0">>,
   <<"8", "8", "0", "0", "0", "1">>,
   <<"c", "y", "b">>,
   <<"H", "S", "3", "0", "0">>,
   <<"0", "0", "0", "a">>}
CmdInputs ==
  {b \o c \o d \o e :
     b \in RoutePrefixes, c \in CmdBodies, d \in Suffixes, e \in Trails}
  \cup WideInputs

CmdInit ==
  /\ InitFetch(0) /\ InitChart({TRUE}) /\ InitSource({TRUE}) /\ InitNorm(CmdInputs)
  /\ InitRoute /\ InitCmd(BOOLEAN) /\ InitCalc

CmdNext ==
  \E impl \in Impls :
    \/ history_price(impl)
    \/ realtime_price(impl)
    \/ plot_price(impl)
    \/ index_price(impl)
    \/ plot_index(impl)

CmdSpec == CmdInit /\ [][CmdNext]_vars

\* --------------------------------------------------- crypto pair normalizer
\* crypto.default_vs_currency and crypto.supported_vs_currencies, by default
DefaultQuote == <<"U", "S", "D", "T">>
SupportedQuotes ==
  <<<<"U", "S", "D", "T">>, <<"B", "T", "C">>, <<"E", "T", "H">>, <<"B", "N", "B">>>>

\* len(symbol) > len(vs)
LongerOrEqual(s, vs) == Len(s) >= Len(vs)
Longer(s, vs) == Len(s) > Len(vs)

\* symbol.endswith(vs) and len(symbol) > len(vs), for one of the supported
FullPair(s) ==
  \E i \in DOMAIN SupportedQuotes :
    EndsWith(s, SupportedQuotes[i]) /\ Longer(s, SupportedQuotes[i])

IsSupported(s) == \E i \in DOMAIN SupportedQuotes : SupportedQuotes[i] = s

\* _normalize_crypto_symbol
normalize_crypto_symbol(symbol, vs_currency) ==
  IF symbol = <<>> THEN <<>>
  ELSE
    LET s == Strip(Upper(symbol))
        vs == Upper(IF vs_currency = <<>> THEN DefaultQuote ELSE vs_currency)
    IN  IF FullPair(s) THEN s
        ELSE IF IsSupported(s) /\ s = vs THEN s
        ELSE s \o vs

NormalizeCrypto ==
  /\ ~paired
  /\ pair' = normalize_crypto_symbol(cbase, cquote)
  /\ paired' = TRUE
  /\ UNCHANGED <<cbase, cquote>>
  /\ UNCHANGED <<baseVars, dailyVars, klineVars, tailVars>>

\* The arguments: bases in any case, padded or not, bare or already a pair,
\* and quotes, given or left to the default.
CryptoCores ==
  {<<>>,
   <<"B", "T", "C">>,
   <<"b", "t", "c">>,
   <<"E", "t", "h">>,
   <<"B", "N", "B">>,
   <<"U", "S", "D", "T">>,
   <<"u", "s", "d", "t">>,
   <<"B", "T", "C", "U", "S", "D", "T">>,
   <<"e", "t", "h", "b", "t", "c">>,
   <<"W", "B", "T", "C">>,
   <<"D", "O", "G", "E">>,
   <<"S", "O", "L", "E", "U", "R">>}
\* Bases with whitespace and letters outside Latin-1
WideBases ==
  {<<"U+3000", "b", "t", "c">>,
   <<"b", "t", "c", "U+2003">>,
   <<"U+017F", "o", "l">>,
   <<"b", "t", "c", "u", "U+017F", "d", "t">>,
   <<"U+FB01", "l">>,
   <<"U+212A", "a", "s">>,
   <<"U+0131", "o", "t", "a">>,
   <<"U+3000">>}
CryptoBases ==
  {a \o b \o c : a \in Leads, b \in CryptoCores, c \in Trails} \cup WideBases
CryptoQuotes ==
  {<<>>,
   <<"U", "S", "D", "T">>,
   <<"u", "s", "d", "t">>,
   <<"B", "T", "C">>,
   <<"E", "T", "H">>,
   <<"B", "N", "B">>,
   <<"E", "U", "R">>}

CryptoInit ==
  /\ InitFetch(0) /\ InitChart({TRUE}) /\ InitSource({TRUE}) /\ InitNorm({<<>>})
  /\ InitRoute /\ InitCmd({TRUE})
  /\ InitCrypto(CryptoBases, CryptoQuotes) /\ InitDaily({NoLayout}, 0, {1}, {"neither"}, {})
  /\ InitKlines(0) /\ InitTail

CryptoNext == NormalizeCrypto

CryptoSpec == CryptoInit /\ [][CryptoNext]_vars

\* ------------------------------------------- get_daily: table to records
\* The names _find_column looks for, in its order ("cn_" stands for the
\* Chinese name of the column).
DateNames == <<"cn_date", "date", "Date", "trade_date">>
OpenNames == <<"cn_open", "open", "Open">>
HighNames == <<"cn_high", "high", "High">>
LowNames == <<"cn_low", "low", "Low">>
CloseNames == <<"cn_close", "close", "Close">>
VolumeNames == <<"cn_volume", "volume", "Volume", "vol">>

\* _find_column: the first of the names that is a column, or "" for None
FindColumn(cols, names) ==
  IF \E i \in DOMAIN names : SeqHas(cols, names[i])
  THEN names[CHOOSE i \in DOMAIN names :
               /\ SeqHas(cols, names[i])
               /\ \A j \in 1..(i - 1) : ~SeqHas(cols, names[j])]
  ELSE ""

\* `if not date_col and len(df.columns) > 0: date_col = df.columns[0]`, and its
\* like for the close at position 4 (here 1-based)
ColumnOr(cols, names, pos) ==
  IF FindColumn(cols, names) # "" THEN FindColumn(cols, names)
  ELSE IF Len(cols) >= pos THEN cols[pos]
  ELSE ""

\* The column sort_values is given: df.columns[0]
SortColumn(cols) == cols[1]

\* ----------------------------------------------------------------------
\* df.sort_values(col, ascending=...): pandas' nargsort over numpy's
\* argsort(kind='quicksort'), the default kind. numpy sorts an array of
\* positions (`tosort`) by the keys they point to: an introsort that
\* partitions a range only while it has more than 17 positions and sorts a
\* shorter range by insertion, so that equal keys keep their order in a sort
\* of up to 17 rows and need not in a longer one.

\* INTP_SWAP(a[i], a[j])
Swap(a, i, j) == [a EXCEPT ![i] = a[j], ![j] = a[i]]

\* npy_get_msb(n): the position of the highest bit of n
RECURSIVE Msb(_)
Msb(n) == IF n <= 1 THEN 0 ELSE 1 + Msb(n \div 2)

\* The insertion sort of the positions a[pl..pr], from position pi on: a[pi]
\* moves left past the positions whose keys are greater than its own.
RECURSIVE Sink(_, _, _, _, _)
Sink(v, a, pl, pj, vi) ==
  IF pj > pl /\ v[vi] < v[a[pj - 1]]
  THEN Sink(v, [a EXCEPT ![pj] = a[pj - 1]], pl, pj - 1, vi)
  ELSE [a EXCEPT ![pj] = vi]
RECURSIVE InsertionSort(_, _, _, _, _)
InsertionSort(v, a, pl, pi, pr) ==
  IF pi > pr \/ a = <<>> THEN a
  ELSE InsertionSort(v, Sink(v, a, pl, pi, a[pi]), pl, pi + 1, pr)

\* The heap sort numpy falls back on when the partitions nest deeper than
\* twice the highest bit of the length: the heap is a[pl..pl+n-1], 1-based.
\* (In the loops below the test `a = <<>>` is never true of a table with rows;
\* it makes TLC compute the positions at every turn of the loop.)
RECURSIVE Sift(_, _, _, _, _, _, _)
Sift(v, a, pl, i, j, n, tmp) ==
  IF j > n THEN [a EXCEPT ![pl + i - 1] = tmp]
  ELSE LET k == IF j < n /\ v[a[pl + j - 1]] < v[a[pl + j]] THEN j + 1 ELSE j
       IN  IF v[tmp] < v[a[pl + k - 1]]
           THEN Sift(v, [a EXCEPT ![pl + i - 1] = a[pl + k - 1]], pl, k, k + k, n, tmp)
           ELSE [a EXCEPT ![pl + i - 1] = tmp]
RECURSIVE Heapify(_, _, _, _, _)
Heapify(v, a, pl, l, n) ==
  IF l < 1 \/ a = <<>> THEN a
  ELSE Heapify(v, Sift(v, a, pl, l, 2 * l, n, a[pl + l - 1]), pl, l - 1, n)
RECURSIVE Unheap(_, _, _, _)
Unheap(v, a, pl, n) ==
  IF n <= 1 \/ a = <<>> THEN a
  ELSE LET tmp == a[pl + n - 1]
           b == [a EXCEPT ![pl + n - 1] = a[pl]]
       IN  Unheap(v, Sift(v, b, pl, 1, 2, n - 1, tmp), pl, n - 1)
HeapSort(v, a, pl, n) == Unheap(v, Heapify(v, a, pl, n \div 2, n), pl, n)

\* One partition of a[pl..pr]: the median of the first, middle and last key
\* is the pivot, parked at pr-1; the two scans swap what is on the wrong side
\* of it until they meet; the pivot then goes where they met.
RECURSIVE ScanUp(_, _, _, _)
ScanUp(v, a, pi, vp) == IF v[a[pi]] < vp THEN ScanUp(v, a, pi + 1, vp) ELSE pi
RECURSIVE ScanDown(_, _, _, _)
ScanDown(v, a, pj, vp) == IF vp < v[a[pj]] THEN ScanDown(v, a, pj - 1, vp) ELSE pj
RECURSIVE Scans(_, _, _, _, _)
Scans(v, a, pi, pj, vp) ==
  LET i == ScanUp(v, a, pi + 1, vp)
      j == ScanDown(v, a, pj - 1, vp)
  IN  IF i >= j THEN [a |-> a, pi |-> i] ELSE Scans(v, Swap(a, i, j), i, j, vp)
Partition(v, a, pl, pr) ==
  LET pm == pl + ((pr - pl) \div 2)
      a1 == IF v[a[pm]] < v[a[pl]] THEN Swap(a, pm, pl) ELSE a
      a2 == IF v[a1[pr]] < v[a1[pm]] THEN Swap(a1, pr, pm) ELSE a1
      a3 == IF v[a2[pm]] < v[a2[pl]] THEN Swap(a2, pm, pl) ELSE a2
      met == Scans(v, Swap(a3, pm, pr - 1), pl, pr - 1, v[a3[pm]])
  IN  [a |-> Swap(met.a, met.pi, pr - 1), pi |-> met.pi]

\* SMALL_QUICKSORT
SmallQuicksort == 16

\* aquicksort: `while (1)` with the depth test, `while ((pr - pl) >
\* SMALL_QUICKSORT)` with the partition, the larger part pushed on the stack
\* with the depth left, the insertion sort, and `stack_pop`.
RECURSIVE QuickOuter(_, _, _, _, _, _)
RECURSIVE QuickInner(_, _, _, _, _, _)
RECURSIVE QuickPop(_, _, _)
QuickOuter(v, a, pl, pr, stack, cdepth) ==
  IF cdepth < 0 THEN QuickPop(v, HeapSort(v, a, pl, pr - pl + 1), stack)
  ELSE QuickInner(v, a, pl, pr, stack, cdepth)
QuickInner(v, a, pl, pr, stack, cdepth) ==
  IF pr - pl > SmallQuicksort
  THEN LET p == Partition(v, a, pl, pr)
       IN  IF p.pi - pl < pr - p.pi
           THEN QuickInner(v, p.a, pl, p.pi - 1,
                           Append(stack, <<p.pi + 1, pr, cdepth - 1>>), cdepth - 1)
           ELSE QuickInner(v, p.a, p.pi + 1, pr,
                           Append(stack, <<pl, p.pi - 1, cdepth - 1>>), cdepth - 1)
  ELSE QuickPop(v, InsertionSort(v, a, pl, pl + 1, pr), stack)
QuickPop(v, a, stack) ==
  IF stack = <<>> \/ a = <<>> THEN a
  ELSE LET top == stack[Len(stack)]
       IN  QuickOuter(v, a, top[1], top[2], SubSeq(stack, 1, Len(stack) - 1), top[3])

\* keys.argsort(kind='quicksort'): the positions of the keys in sorted order
ArgSort(v) ==
  IF v = <<>> THEN <<>>
  ELSE QuickOuter(v, [i \in 1..Len(v) |-> i], 1, Len(v), <<>>, 2 * Msb(Len(v)))

RECURSIVE Reverse(_)
Reverse(q) == IF q = <<>> THEN <<>> ELSE Reverse(Tail(q)) \o <<Head(q)>>

\* nargsort(keys, ascending, na_position='last'): the positions of the keys
\* that are not NaN, sorted, and after them the positions of the NaN keys in
\* the order of the table. For a descending sort the keys are reversed before
\* the ascending argsort and the result is reversed after it. A key is a cell
\* of the table: a number, NaN or text; keys of text are all the same text.
NArgSort(keys, ascending) ==
  LET idx == SelectSeq([i \in DOMAIN keys |-> i], LAMBDA i : keys[i].k # "nan")
      nan == SelectSeq([i \in DOMAIN keys |-> i], LAMBDA i : keys[i].k = "nan")
      from == IF ascending THEN idx ELSE Reverse(idx)
      sorted == ArgSort([i \in DOMAIN from |-> keys[from[i]].v])
      indexer == [i \in DOMAIN sorted |-> from[sorted[i]]]
  IN  (IF ascending THEN indexer ELSE Reverse(indexer)) \o nan

\* df.take(indexer)
TakeRows(rows, indexer) == [i \in DOMAIN indexer |-> rows[indexer[i]]]

\* df[col]: the cells of the column
SortKeys(rows, col) == [i \in DOMAIN rows |-> rows[i][col]]

\* argsort compares the keys that are not NaN with `<`, which raises TypeError
\* between text and a number: the sort raises when the column holds both.
SortRaises(keys) ==
  \E i, j \in DOMAIN keys : keys[i].k = "bad" /\ keys[j].k = "num"

\* df.sort_values(col, ascending=True) and df.sort_values(col, ascending=False):
\* the sorted rows, or the TypeError
SortAsc(rows, col) ==
  IF SortRaises(SortKeys(rows, col)) THEN Raise("TypeError")
  ELSE Ret(TakeRows(rows, NArgSort(SortKeys(rows, col), TRUE)))
SortDesc(rows, col) ==
  IF SortRaises(SortKeys(rows, col)) THEN Raise("TypeError")
  ELSE Ret(TakeRows(rows, NArgSort(SortKeys(rows, col), FALSE)))

\* df.head(n) and q[:n]: the first n, or all but the last -n for a negative n
Take(q, n) ==
  SubSeq(q, 1, IF n >= 0 THEN Min(n, Len(q)) ELSE IF Len(q) + n > 0 THEN Len(q) + n ELSE 0)

\* head(max_records) and the ascending sort, of what the descending sort gave
HeadSorted(sorted, col, max) ==
  IF sorted.t = "raise" THEN sorted ELSE SortAsc(Take(sorted.v, max), col)

\* sort descending, head(max_records), sort ascending
LatestRows(rows, cols, max) ==
  HeadSorted(SortDesc(rows, SortColumn(cols)), SortColumn(cols), max)

\* `float(row[col]) if col and pd.notna(row[col]) else 0`; raises for text
CellRaises(row, col) == col # "" /\ row[col].k = "bad"

\* The columns whose cells the row loop converts with float(): each by its
\* name, or by its position where no name is found.
FloatColumns(cols) ==
  {ColumnOr(cols, OpenNames, 2), ColumnOr(cols, HighNames, 3),
   ColumnOr(cols, LowNames, 4), ColumnOr(cols, CloseNames, 5),
   ColumnOr(cols, VolumeNames, 6)}

\* `trade_date = datetime.now().strftime('%Y%m%d')`, the date of a row whose
\* date cell is NaN, raises UnboundLocalError when get_daily was given a
\* start_date: `from datetime import datetime, timedelta` under `if not
\* start_date:` makes the name local to get_daily, bound only there.
DateRaises(row, cols, dates) ==
  /\ dates \in {"both", "start"}
  /\ ColumnOr(cols, DateNames, 1) = "" \/ row[ColumnOr(cols, DateNames, 1)].k = "nan"

\* building the item raises: the date does, or one of the five conversions
RowRaises(row, cols, dates) ==
  DateRaises(row, cols, dates) \/ \E col \in FloatColumns(cols) : CellRaises(row, col)
CellValue(row, col) == IF col # "" /\ row[col].k = "num" THEN row[col].v ELSE 0

\* The day get_daily is called on, the last of the providers' history.
Today == MaxDay

\* trade_date: the date of the row, or today's for a row without one
DailyTradeDate(row, cols) ==
  IF ColumnOr(cols, DateNames, 1) # "" /\ row[ColumnOr(cols, DateNames, 1)].k # "nan"
  THEN row[ColumnOr(cols, DateNames, 1)].v
  ELSE Today

\* (change / pre_close) * 100 as the fraction it is, 0 when pre_close is 0
Pct(change, pre) == IF pre # 0 THEN [n |-> change * 100, d |-> pre] ELSE [n |-> 0, d |-> 1]

\* One pass of the row loop: a row with a cell that does not convert is skipped;
\* the first record is its own reference, a later one refers to result[-1].
FirstClose(result) == result[1].close
LastClose(result) == result[Len(result)].close

DailyItem(row, cols, result) ==
  LET close == CellValue(row, ColumnOr(cols, CloseNames, 5))
      pre == IF result # <<>> THEN LastClose(result) ELSE close
  IN  [trade_date |-> DailyTradeDate(row, cols),
       close |-> close, pre_close |-> pre, change |-> close - pre,
       pct_chg |-> IF result # <<>> THEN Pct(close - pre, pre) ELSE [n |-> 0, d |-> 1]]

RECURSIVE DailyLoop(_, _, _, _)
DailyLoop(rows, cols, dates, result) ==
  IF rows = <<>> THEN result
  ELSE IF RowRaises(Head(rows), cols, dates)
       THEN DailyLoop(Tail(rows), cols, dates, result)
  ELSE DailyLoop(Tail(rows), cols, dates,
                 Append(result, DailyItem(Head(rows), cols, result)))

\* The row loop over the latest rows; a TypeError of the sorts goes to the
\* outer `except Exception`, which returns []
LoopOrCatch(latest, cols, dates) ==
  IF latest.t = "raise" THEN <<>> ELSE DailyLoop(latest.v, cols, dates, <<>>)

\* get_daily from the defaults of its date arguments to its return, given the
\* provider's table: [] when `end_date = datetime.now()` raises, [] for `if
\* df is None or df.empty`, [] when a sort raises, else the records of the
\* latest rows
DailyRecords(rows, cols, max, dates) ==
  IF DatesRaise(dates) \/ rows = <<>> THEN <<>>
  ELSE LoopOrCatch(LatestRows(rows, cols, max), cols, dates)

ListDaily ==
  /\ ~listed
  /\ records' = DailyRecords(frame, columns, dailyMax, dailyArgs)
  /\ listed' = TRUE
  /\ UNCHANGED <<columns, frame, dailyMax, dailyArgs>>
  /\ UNCHANGED <<baseVars, cryptoVars, klineVars, tailVars>>

\* The tables: the provider's usual layout with the date first, one with a
\* serial number before the date, and one whose names are not known, read by
\* position.
NamedLayout == <<"date", "open", "close", "high", "low", "volume">>
SerialLayout == <<"serial", "date", "open", "close", "high", "low", "volume">>
PositionalLayout == <<"c0", "c1", "c2", "c3", "c4", "c5">>
Layout(cols) ==
  [columns |-> cols,
   date |-> ColumnOr(cols, DateNames, 1), close |-> ColumnOr(cols, CloseNames, 5),
   open |-> ColumnOr(cols, OpenNames, 2), volume |-> ColumnOr(cols, VolumeNames, 6)]
Layouts == {Layout(NamedLayout), Layout(SerialLayout), Layout(PositionalLayout)}

DailyInit ==
  /\ InitFetch(0) /\ InitChart({TRUE}) /\ InitSource({TRUE}) /\ InitNorm({<<>>})
  /\ InitRoute /\ InitCmd({TRUE})
  /\ InitCrypto({<<>>}, {<<>>}) /\ InitDaily(Layouts, MaxRows, 1..MaxRecordsBound, DateArgs, LongDates)
  /\ InitKlines(0) /\ InitTail

DailyNext == ListDaily

DailySpec == DailyInit /\ [][DailyNext]_vars

\* ------------------------------------------------------------------------
\* The feature flags: what the operations on a symbol of a market that can be
\* switched off call (src/data_source.py 219-236, 430-455, 776-935)
\* ------------------------------------------------------------------------

CryptoOps ==
  {"get_crypto_price", "get_crypto_list", "get_exchange_info", "get_crypto_klines"}

\* The exchange's endpoint an operation asks.
Endpoint(op) ==
  CASE op = "get_crypto_price" -> "/api/v3/ticker/24hr"
    [] op = "get_crypto_list" -> "/api/v3/ticker/24hr"
    [] op = "get_exchange_info" -> "/api/v3/exchangeInfo"
    [] op = "get_crypto_klines" -> "/api/v3/klines"

\* A crypto operation up to its request: `if not self._enable_crypto: return`
\* comes first, then the pair is normalized and the endpoint asked.
CryptoRoute(op, symbol) ==
  IF ~enableCrypto
  THEN [op |-> op, ok |-> TRUE, provider |-> "none", sym |-> symbol, arg |-> <<>>]
  ELSE [op |-> op, ok |-> TRUE, provider |-> Endpoint(op), sym |-> symbol,
        arg |-> normalize_crypto_symbol(symbol, <<>>)]

RouteCryptoPrice == Apply(CryptoRoute("get_crypto_price", code))
RouteCryptoKlines == Apply(CryptoRoute("get_crypto_klines", code))
\* the two operations that take no symbol
RouteCryptoList ==
  Apply([CryptoRoute("get_crypto_list", <<>>) EXCEPT !.arg = <<>>])
RouteExchangeInfo ==
  Apply([CryptoRoute("get_exchange_info", <<>>) EXCEPT !.arg = <<>>])

\* Symbols of the three markets, and names of coins.
MarketBodies ==
  {<<"0", "0", "7", "0", "0">>,
   <<"7", "0", "0">>,
   <<"6", "0", "0", "0", "0", "1">>,
   <<"A", "A", "P", "L">>,
   <<"a", "a", "p", "l">>,
   <<"B", "T", "C">>}
MarketSuffixes ==
  {<<>>,
   <<".", "S", "H">>,
   <<".", "H", "K">>,
   <<".", "h", "k">>,
   <<".", "U", "S">>,
   <<".", "u", "s">>}
MarketInputs ==
  {a \o b \o c \o d :
     a \in Leads, b \in RoutePrefixes, c \in MarketBodies, d \in MarketSuffixes}

MarketInit ==
  /\ InitFetch(0) /\ InitChart({TRUE}) /\ InitSource(BOOLEAN) /\ InitNorm(MarketInputs)
  /\ InitRoute /\ InitCmd({TRUE}) /\ InitCalc

MarketNext ==
  \/ RouteDaily \/ RouteRealtime
  \/ RouteCryptoPrice \/ RouteCryptoKlines \/ RouteCryptoList \/ RouteExchangeInfo

MarketSpec == MarketInit /\ [][MarketNext]_vars

\* ------------------------------------------------------------------------
\* The commands' replies to what the data source returned
\* (src/main.py 326-513, src/commands/stock_commands.py 88-273,
\*  src/commands/crypto_commands.py 20-65)
\* ------------------------------------------------------------------------
\* The kinds of message:
\*   "retry"     a failure message ending in "try again later"
\*   "nodata"    "no data obtained for <code>, check that the code is correct"
\*   "usfailed"  the US history message, which names both a wrong code and an
\*               unavailable interface as possible reasons
\*   "notfound", "failed"  the text of get_crypto_price's error object
\*   "hint"      the error text and suggestion of get_realtime's error object
\*   "disabled"  the feature is switched off
\*   "data"      the listing, the card or the chart

\* `if not all_data:` of history_price and `if not data:` of plot_price
EmptyReply(sym) == IF sym = "us" THEN "usfailed" ELSE "nodata"

HistoryReply(sym, res) == IF res.v = "[]" THEN EmptyReply(sym) ELSE "data"

\* realtime_price: `if not data:`, then data['pre_close'], which an error
\* object does not have; the KeyError ends in the handler's `except Exception`
MissingKey(keys) == "retry"
RealtimeReply(res, keys) ==
  IF res.v = "{}" THEN "nodata"
  ELSE IF "pre_close" \notin keys THEN MissingKey(keys)
  ELSE "data"

\* plot_price: the chart is drawn, or plot_stock_chart returns None
ChartReply(sym, res, drawn) ==
  IF res.v = "[]" THEN EmptyReply(sym)
  ELSE IF drawn THEN "data" ELSE "retry"

\* get_crypto_price's error object by its text: "pair not found" when the
\* request gave nothing, "failed to get the price" when reading it raised
CryptoErrorText(p1) ==
  IF Falsy(BinanceRequest(p1).v) THEN "notfound" ELSE "failed"

\* crypto_price: the flag first, then `if "error" in result:` renders the text
CryptoReply(res, p1) ==
  IF ~enableCrypto THEN "disabled"
  ELSE IF res.v = "error" THEN CryptoErrorText(p1)
  ELSE "data"

Say(command, impl, kind) ==
  /\ said = Unsaid
  /\ said' = [command |-> command, impl |-> impl, reply |-> kind]
  /\ UNCHANGED <<fetchVars, chartVars, normVars, routeVars, cmdVars, seriesVars, notReplyTail>>

\* The symbols that pass the command's own validation and are no index code.
StockSyms == {"a", "hk", "us"}

price(impl) ==
  \E sym \in StockSyms, dates \in {"neither", "both"}, p1 \in ProviderBehaviours :
    \E p2, p3 \in (IF sym = "us" THEN ProviderBehaviours ELSE {"none"}) :
      LET res == DailyResult(sym, dates, p1, p2, p3)
      IN  /\ Called("get_daily", sym, dates, p1, p2, p3, res)
          /\ Say("price", impl, HistoryReply(sym, res))

price_now(impl) ==
  \E sym \in StockSyms, p1 \in ProviderBehaviours :
    LET res == RealtimeResult(sym, p1)
    IN  /\ Called("get_realtime", sym, "none", p1, "none", "none", res)
        /\ Say("price_now", impl, RealtimeReply(res, RealtimeKeys(sym, p1)))

price_chart(impl) ==
  \E sym \in StockSyms, p1 \in ProviderBehaviours, drawn \in BOOLEAN :
    \/ \E p2, p3 \in (IF sym = "us" THEN {"empty", "rows", "Timeout"} ELSE {"none"}) :
         LET res == DailyResult(sym, "neither", p1, p2, p3)
         IN  /\ Called("get_daily", sym, "neither", p1, p2, p3, res)
             /\ Say("price_chart", impl, ChartReply(sym, res, drawn))
    \/ LET res == IntradayResult(sym, p1)
       IN  /\ Called("get_hourly", sym, "none", p1, "none", "none", res)
           /\ Say("price_chart", impl, ChartReply(sym, res, drawn))

crypto_price ==
  \E p1 \in ProviderBehaviours :
    LET res == CryptoPriceResult("str", p1)
    IN  /\ IF enableCrypto
           THEN Called("get_crypto_price", "str", "none", p1, "none", "none", res)
           ELSE UNCHANGED srcVars
        /\ Say("crypto", "commands", CryptoReply(res, p1))

ReplyInit ==
  /\ InitFetch(0) /\ InitChart({TRUE}) /\ InitSource(BOOLEAN) /\ InitNorm({<<>>})
  /\ InitRoute /\ InitCmd({TRUE})
  /\ InitCalc

ReplyNext ==
  \/ \E impl \in Impls : price(impl)
  \/ \E impl \in Impls : price_now(impl)
  \/ \E impl \in Impls : price_chart(impl)
  \/ crypto_price

ReplySpec == ReplyInit /\ [][ReplyNext]_vars

\* ------------------------------------------------------------------------
\* plot_stock_chart: from the flags to the panels and the file
\* (src/main.py 172-308, src/utils/chart_utils.py 157-295)
\* ------------------------------------------------------------------------

\* StockPricePlugin.plot_stock_chart and ChartGenerator.plot_stock_chart
PlotImpls == {"StockPricePlugin", "ChartGenerator"}

\* height_ratios: [3], `.append(1)` if show_volume, `.extend([1, 1])` if
\* enable_technical_analysis and show_indicators; one panel per entry
HeightRatios(vol, tech, ind) ==
  <<3>> \o (IF vol THEN <<1>> ELSE <<>>) \o (IF tech /\ ind THEN <<1, 1>> ELSE <<>>)

\* One drawing: the index into `axes` it takes (from 0, as in the source),
\* what it draws there, and whether it reads dif, dea, macd, k, d, j, which
\* are bound only under enable_technical_analysis.
Drawing(panel, what, names) == [panel |-> panel, what |-> what, names |-> names]

\* StockPricePlugin.plot_stock_chart: axes[0], axes[1], axes[2], axes[3],
\* whatever the flags
PluginDrawings(n, vol, tech, ind) ==
  << Drawing(0, "candles", FALSE), Drawing(1, "Volume", FALSE),
     Drawing(2, "MACD", TRUE), Drawing(3, "KDJ", TRUE) >>

\* ChartGenerator.plot_stock_chart: axes[0]; axes[1] `if self.show_volume and
\* len(axes) > 1`; axes[-2] and axes[-1] `if self.enable_technical_analysis
\* and self.show_indicators and len(axes) > 2`
GeneratorDrawings(n, vol, tech, ind) ==
  << Drawing(0, "candles", FALSE) >>
  \o (IF vol /\ n > 1 THEN << Drawing(1, "Volume", FALSE) >> ELSE <<>>)
  \o (IF tech /\ ind /\ n > 2
      THEN << Drawing(n - 2, "MACD", TRUE), Drawing(n - 1, "KDJ", TRUE) >>
      ELSE <<>>)

Drawings(impl, n, vol, tech, ind) ==
  IF impl = "StockPricePlugin" THEN PluginDrawings(n, vol, tech, ind)
  ELSE GeneratorDrawings(n, vol, tech, ind)

\* The drawings in order, up to the first that raises: IndexError for a panel
\* that axes does not have, NameError for a name that was never bound.
RECURSIVE Draw(_, _, _, _)
Draw(todo, n, tech, done) ==
  IF todo = <<>> THEN [drawn |-> done, raised |-> FALSE]
  ELSE IF Head(todo).panel >= n \/ (Head(todo).names /\ ~tech)
       THEN [drawn |-> done, raised |-> TRUE]
       ELSE Draw(Tail(todo), n, tech, Append(done, Head(todo)))

\* x_ticks = range(0, len(data), max(1, len(data)//10)): the number of labels
TickCount(len) ==
  LET step == IF len \div 10 > 1 THEN len \div 10 ELSE 1
  IN  (len + step - 1) \div step

\* `if 'trade_time' in data.columns and not data.empty:` the labels are the
\* times, else the dates
TickLabels(timed, len) == IF timed /\ len > 0 THEN "trade_time" ELSE "trade_date"

\* What plot_stock_chart returns: "" when chart generation is disabled, None
\* from `except Exception`, else the name of the temporary file.
PlotStockChart(impl, enabled, vol, tech, ind, len, timed) ==
  IF ~enabled
  THEN [impl |-> impl, len |-> len, ratios |-> <<>>, drawn |-> <<>>,
        labels |-> "none", ticks |-> 0, out |-> ""]
  ELSE LET ratios == HeightRatios(vol, tech, ind)
           d == Draw(Drawings(impl, Len(ratios), vol, tech, ind), Len(ratios), tech, <<>>)
       IN  [impl |-> impl, len |-> len, ratios |-> ratios, drawn |-> d.drawn,
            labels |-> IF d.raised THEN "none" ELSE TickLabels(timed, len),
            ticks |-> IF d.raised THEN 0 ELSE TickCount(len),
            out |-> IF d.raised THEN "None" ELSE "path"]

\* plot_stock_chart(data, title) on a series of 1..MaxBars bars with all the
\* columns, with or without a trade_time column
Plot(impl) ==
  /\ plot.impl = "none"
  /\ \E len \in 1..MaxBars, timed \in BOOLEAN :
       plot' = PlotStockChart(impl, enableChart, showVolume, techAnalysis,
                              showIndicators, len, timed)
  /\ UNCHANGED <<showVolume, techAnalysis, showIndicators>>
  /\ UNCHANGED <<baseVars, seriesVars, notPlotTail>>

PlotInit ==
  /\ InitFetch(0) /\ InitChart(BOOLEAN) /\ InitSource({TRUE}) /\ InitNorm({<<>>})
  /\ InitRoute /\ InitCmd({TRUE})
  /\ QuietSeries /\ QuietList /\ QuietReply /\ QuietKdj /\ QuietShow /\ QuietSnap /\ QuietDated
  /\ InitPlot(BOOLEAN)

PlotNext == \E impl \in PlotImpls : Plot(impl)

PlotSpec == PlotInit /\ [][PlotNext]_vars

\* ------------------------------------------------------------------------
\* calculate_kdj: from the bars to RSV, K, D and J
\* (src/utils/chart_utils.py 78-91, src/main.py 50-63: the same text)
\* ------------------------------------------------------------------------

\* The parameters n, m1 and m2 of calculate_kdj
KdjN == 9
KdjM1 == 3
KdjM2 == 3

\* A float64 as an extended rational n/d with d >= 0: d = 0 stands for +inf
\* (n = 1), -inf (n = -1) and NotANumber (n = 0).
Rat(n, d) == [n |-> n, d |-> d]
NotANumber == Rat(0, 0)
IsNaN(x) == x.d = 0 /\ x.n = 0
IsFinite(x) == x.d > 0

Sgn(a) == IF a > 0 THEN 1 ELSE IF a < 0 THEN -1 ELSE 0
Abs(a) == IF a < 0 THEN -a ELSE a

RECURSIVE Gcd(_, _)
Gcd(a, b) == IF b = 0 THEN a ELSE Gcd(b, a % b)

\* the value in lowest terms
Reduced(x) ==
  IF x.d = 0 THEN Rat(Sgn(x.n), 0)
  ELSE LET g == Gcd(Abs(x.n), x.d) IN Rat(x.n \div g, x.d \div g)

\* a / b on floats: x/0 is +inf or -inf, 0/0 is NotANumber, nothing is raised
FloatDiv(a, b) ==
  IF b = 0 THEN Rat(Sgn(a), 0)
  ELSE IF b > 0 THEN Reduced(Rat(a, b)) ELSE Reduced(Rat(-a, -b))

\* x * c / e for integers c and e > 0
Scaled(x, c, e) ==
  IF x.d = 0 THEN Rat(Sgn(x.n) * Sgn(c), 0) ELSE Reduced(Rat(x.n * c, x.d * e))

\* x + y: inf + (-inf) is NotANumber
Plus(x, y) ==
  IF IsNaN(x) \/ IsNaN(y) THEN NotANumber
  ELSE IF x.d = 0 /\ y.d = 0 THEN (IF x.n = y.n THEN x ELSE NotANumber)
  ELSE IF x.d = 0 THEN x
  ELSE IF y.d = 0 THEN y
  ELSE Reduced(Rat(x.n * y.d + y.n * x.d, x.d * y.d))

\* The bars of the window that ends at bar i: `.rolling(window=n, min_periods=1)`
Window(i, n) == (IF i - n + 1 > 1 THEN i - n + 1 ELSE 1)..i

\* df['low'].rolling(window=n, min_periods=1).min() at bar i
RollingLow(df, i, n) ==
  CHOOSE v \in {df[w].low : w \in Window(i, n)} :
    \A w \in Window(i, n) : v <= df[w].low

\* df['high'].rolling(window=n, min_periods=1).max() at bar i
RollingHigh(df, i, n) ==
  CHOOSE v \in {df[w].high : w \in Window(i, n)} :
    \A w \in Window(i, n) : v >= df[w].high

\* high_list - low_list at bar i
RollingRange(df, i, n) == RollingHigh(df, i, n) - RollingLow(df, i, n)

\* rsv.fillna(50): NotANumber becomes 50, every other value stays
FillNa50(x) == IF IsNaN(x) THEN Rat(50, 1) ELSE x

\* (df['close'] - low_list) / (high_list - low_list) * 100, then fillna(50)
Rsv(df, i, n) ==
  FillNa50(Scaled(FloatDiv(df[i].close - RollingLow(df, i, n), RollingRange(df, i, n)),
                  100, 1))

\* x * y and x / y of finite values, y > 0
Times(x, y) == Reduced(Rat(x.n * y.n, x.d * y.d))
Over(x, y) == Reduced(Rat(x.n * y.d, x.d * y.n))

\* What ewm hands to its loop: every +inf and -inf of the series has become
\* NotANumber (the window's preparation of its values).
PrepValue(x) == IF IsFinite(x) THEN x ELSE NotANumber

\* The loop of `.ewm(alpha=1/m, adjust=False).mean()` keeps the weighted mean
\* so far and the weight of it, which is 1 after an observation.
EwmStart(x) == [mean |-> PrepValue(x), wt |-> Rat(1, 1)]

\* One step of the loop, from the state st to the next value cur. While no
\* value has been a number the mean restarts from cur. After that the old
\* weight decays by 1 - 1/m; a cur that is not a number leaves the mean as it
\* is, a number is averaged in with weight 1/m (or leaves the mean as it is
\* when the two are equal) and the weight returns to 1.
EwmStep(st, cur, m) ==
  LET x == PrepValue(cur)
      old == Times(st.wt, Rat(m - 1, m))
      new == Rat(1, m)
  IN  IF IsNaN(st.mean) THEN [mean |-> x, wt |-> st.wt]
      ELSE IF IsNaN(x) THEN [mean |-> st.mean, wt |-> old]
      ELSE IF st.mean = x THEN [mean |-> st.mean, wt |-> Rat(1, 1)]
      ELSE [mean |-> Over(Plus(Times(old, st.mean), Times(new, x)), Plus(old, new)),
            wt |-> Rat(1, 1)]

RECURSIVE EwmState(_, _, _)
EwmState(s, i, m) ==
  IF i = 1 THEN EwmStart(s[1]) ELSE EwmStep(EwmState(s, i - 1, m), s[i], m)

\* s.ewm(alpha=1/m, adjust=False).mean() at index i
Ewm(s, i, m) == EwmState(s, i, m).mean

\* calculate_kdj(df)
CalculateKdj(df) ==
  LET rsv == [i \in DOMAIN df |-> Rsv(df, i, KdjN)]
      k == [i \in DOMAIN df |-> Ewm(rsv, i, KdjM1)]
      d == [i \in DOMAIN df |-> Ewm(k, i, KdjM2)]
      j == [i \in DOMAIN df |-> Plus(Scaled(k[i], 3, 1), Scaled(d[i], -2, 1))]
  IN  [done |-> TRUE, rsv |-> rsv, k |-> k, d |-> d, j |-> j]

calculate_kdj ==
  /\ ~kdj.done
  /\ kdj' = CalculateKdj(ohlc)
  /\ UNCHANGED ohlc
  /\ UNCHANGED <<baseVars, seriesVars, notKdjTail>>

\* The prices of the bars: 0 is also what the data source writes for a
\* missing high, low or close.
KdjPrices == 0..2

KdjInit ==
  /\ InitFetch(0) /\ InitChart({TRUE}) /\ InitSource({TRUE}) /\ InitNorm({<<>>})
  /\ InitRoute /\ InitCmd({TRUE})
  /\ QuietSeries /\ QuietList /\ QuietReply /\ QuietPlot /\ QuietShow /\ QuietSnap /\ QuietDated
  /\ InitKdj(MaxBars, KdjPrices)

KdjNext == calculate_kdj

KdjSpec == KdjInit /\ [][KdjNext]_vars

\* ------------------------------------------------------------------------
\* get_crypto_list: from the exchange's tickers to the list it returns
\* (src/data_source.py 823-865)
\* ------------------------------------------------------------------------

\* The quote currency written into the filter: `.endswith('USDT')`
ListedQuote == <<"U", "S", "D", "T">>

\* `ticker['symbol'].endswith('USDT') and float(ticker['quoteVolume']) > 0`
Qualifies(t) == EndsWith(t.symbol, ListedQuote) /\ t.quoteVolume > 0

\* usdt_pairs.sort(key=quoteVolume, reverse=True): descending, and pairs of
\* equal volume stay in the order they had
RECURSIVE InsertByVolume(_, _)
InsertByVolume(t, sorted) ==
  IF sorted = <<>> THEN <<t>>
  ELSE IF Head(sorted).quoteVolume <= t.quoteVolume THEN <<t>> \o sorted
  ELSE <<Head(sorted)>> \o InsertByVolume(t, Tail(sorted))
RECURSIVE SortByVolume(_)
SortByVolume(q) ==
  IF q = <<>> THEN <<>> ELSE InsertByVolume(Head(q), SortByVolume(Tail(q)))

\* an entry of the result, by the fields that say which pair it is
CoinInfo(t) ==
  [symbol |-> t.symbol, quote_volume_24h |-> t.quoteVolume, vs_currency |-> ListedQuote]

\* get_crypto_list: [] when crypto is disabled or the answer is empty, else
\* usdt_pairs[:limit] of the sorted pairs
CryptoList(enabled, data, limit) ==
  IF ~enabled \/ data = <<>> THEN <<>>
  ELSE LET top == Take(SortByVolume(SelectSeq(data, Qualifies)), limit)
       IN  [i \in DOMAIN top |-> CoinInfo(top[i])]

ListCoins ==
  /\ ~coined
  /\ coins' = CryptoList(enableCrypto, tickers, listLimit)
  /\ coined' = TRUE
  /\ UNCHANGED <<defaultVs, tickers, listLimit>>
  /\ UNCHANGED <<baseVars, seriesVars, notListTail>>

\* The pairs of the exchange and the settlement currencies a configuration
\* may name.
ListPairs ==
  {<<"B", "T", "C", "U", "S", "D", "T">>,
   <<"E", "T", "H", "U", "S", "D", "T">>,
   <<"E", "T", "H", "B", "T", "C">>,
   <<"B", "N", "B", "B", "T", "C">>}
ListQuotes == {<<"U", "S", "D", "T">>, <<"B", "T", "C">>}
ListVolumes == {0, 1, 2}
\* The limit argument: any int, a negative one and 0 among them.
ListLimits == {-1} \cup 0..MaxListLimit

ListInit ==
  /\ InitFetch(0) /\ InitChart({TRUE}) /\ InitSource({TRUE}) /\ InitNorm({<<>>})
  /\ InitRoute /\ InitCmd({TRUE})
  /\ QuietSeries
  /\ InitList(ListQuotes, ListPairs, MaxTickers, ListVolumes, ListLimits)
  /\ QuietReply /\ QuietPlot /\ QuietKdj /\ QuietShow /\ QuietSnap /\ QuietDated

ListNext == ListCoins

ListSpec == ListInit /\ [][ListNext]_vars

\* ------------------------------------------------------------------------
\* get_crypto_klines: from the exchange's bars to the list it returns
\* (src/data_source.py 906-984)
\* ------------------------------------------------------------------------

\* Open times are counted in minutes from the start of a local day.
MinutesPerDay == 1440

\* datetime.fromtimestamp(timestamp / 1000).strftime('%Y%m%d'): the day
TradeDate(t) == t \div MinutesPerDay

\* datetime.fromtimestamp(timestamp / 1000).strftime('%H:%M:%S'): the time of day
TradeTime(t) == t % MinutesPerDay

\* result[-1]['close']
PrevClose(result) == result[Len(result)].close

\* `(change / prev_close) * 100 if prev_close else 0`, as the fraction it is
KlinePct(change, prev) ==
  IF prev # 0 THEN [n |-> change * 100, d |-> prev] ELSE [n |-> 0, d |-> 1]

\* the record of a bar whose fields convert
KlineItem(bar, result) ==
  LET close == bar.close.v
  IN  [timestamp |-> bar.timestamp,
       trade_date |-> TradeDate(bar.timestamp), trade_time |-> TradeTime(bar.timestamp),
       close |-> close,
       change |-> IF result # <<>> THEN close - PrevClose(result) ELSE 0,
       pct_chg |-> IF result # <<>>
                   THEN KlinePct(close - PrevClose(result), PrevClose(result))
                   ELSE [n |-> 0, d |-> 1]]

\* the loop over klines_data: a bar that does not convert is skipped
RECURSIVE KlineLoop(_, _)
KlineLoop(rest, result) ==
  IF rest = <<>> THEN result
  ELSE IF Head(rest).close.k = "bad" THEN KlineLoop(Tail(rest), result)
  ELSE KlineLoop(Tail(rest), Append(result, KlineItem(Head(rest), result)))

\* get_crypto_klines: [] when crypto is disabled or the answer is empty,
\* else the records in the reverse of fetch order
CryptoKlines(enabled, answer) ==
  IF ~enabled \/ answer = <<>> THEN <<>> ELSE Reverse(KlineLoop(answer, <<>>))

ListKlines ==
  /\ ~barred
  /\ klines' = CryptoKlines(enableCrypto, bars)
  /\ barred' = TRUE
  /\ UNCHANGED bars
  /\ UNCHANGED <<baseVars, cryptoVars, dailyVars, tailVars>>

\* One history request of either kind: an equity table for get_daily or an
\* answer of the exchange for get_crypto_klines; the other operation is given
\* nothing.
HistoryInit ==
  /\ InitFetch(0) /\ InitChart({TRUE}) /\ InitSource(BOOLEAN) /\ InitNorm({<<>>})
  /\ InitRoute /\ InitCmd({TRUE})
  /\ InitCrypto({<<>>}, {<<>>})
  /\ \/ InitDaily(Layouts, MaxRows, {MaxRecordsBound}, {"neither"}, {}) /\ InitKlines(0)
     \/ InitDaily({NoLayout}, 0, {1}, {"neither"}, {}) /\ InitKlines(MaxBars)
  /\ InitTail

HistoryNext == ListDaily \/ ListKlines

HistorySpec == HistoryInit /\ [][HistoryNext]_vars

\* ------------------------------------------------------------------------
\* crypto_chart: from the period to the series handed to plot_stock_chart
\* (src/commands/crypto_commands.py 186-239)
\* ------------------------------------------------------------------------

\* The periods crypto_chart accepts
CryptoPeriods == {"daily", "hourly", "1min", "5min", "15min", "30min", "60min"}

\* The length of a bar of the period, in minutes (interval_map of
\* get_crypto_klines: 1d, 1h, 1m, 5m, 15m, 30m, 1h)
BarMinutes(period) ==
  CASE period = "daily" -> MinutesPerDay
    [] period \in {"hourly", "60min"} -> 60
    [] period = "1min" -> 1
    [] period = "5min" -> 5
    [] period = "15min" -> 15
    [] period = "30min" -> 30

\* The exchange's answers to a request for bars of the period: up to MaxBars
\* consecutive bars, or LongBars of them, in ascending order of open time, the
\* first opening at midnight or one bar before the next midnight.
KlineAnswers(period) ==
  { [i \in 1..n |-> Bar(start + (i - 1) * BarMinutes(period), Num(9 + 3 * ((i + skew) % 2)))] :
      n \in 1..MaxBars \cup {LongBars},
      start \in {0, MinutesPerDay - BarMinutes(period)}, skew \in {0, 1} }

\* df.sort_values('trade_date'): the records in ascending order of the
\* column; every record has a trade_date
SortByDate(rows) ==
  TakeRows(rows, NArgSort([i \in DOMAIN rows |-> Num(rows[i].trade_date)], TRUE))

\* terminate(): `del self._lock`. Commands already in or waiting for the lock
\* keep their reference to it.
Terminate ==
  /\ ~terminated
  /\ terminated' = TRUE
  /\ UNCHANGED <<enableChart, cpc, chartFile, reply, locked, waiters>>
  /\ UNCHANGED nonChartVars

\* A history command's outcome: `rendered` tells whether bars went to
\* plot_stock_chart (or into the listing), or a message was replied instead.
Shown(command, impl, period, limit, ranged, rows, rendered) ==
  [command |-> command, impl |-> impl, period |-> period, limit |-> limit,
   ranged |-> ranged, bars |-> rows, rendered |-> rendered, at |-> "end"]

\* A chart command suspended in the `await` of its history fetch.
Fetching(command, impl, period, limit, ranged) ==
  [command |-> command, impl |-> impl, period |-> period, limit |-> limit,
   ranged |-> ranged, bars |-> <<>>, rendered |-> FALSE, at |-> "fetch"]

\* `async with self._lock:` around plot_stock_chart, reached with the rows to
\* chart: the rows plot_stock_chart is given, or none when terminate() has
\* deleted the attribute (AttributeError, the command replies its failure
\* message). No other chart command holds or awaits the lock here.
Charted(rows) == IF terminated THEN <<>> ELSE rows

\* crypto_chart(symbol, period) up to its fetch: the two flags, then `await
\* get_crypto_daily / _hourly / _minutely`
CryptoChartBegin(period) ==
  /\ shown.command = "none"
  /\ shown' = IF enableCrypto /\ enableChart
              THEN Fetching("crypto_chart", "commands", period, 0, FALSE)
              ELSE Shown("crypto_chart", "commands", period, 0, FALSE, <<>>, FALSE)
  /\ UNCHANGED <<defaultLimit, fetched, klineVars>>
  /\ UNCHANGED <<baseVars, cryptoVars, dailyVars, notShowTail>>

\* crypto_chart from the return of its fetch: `if not data:`, the sort, the
\* lock, plot_stock_chart
CryptoChart(period) ==
  /\ shown.command = "crypto_chart" /\ shown.at = "fetch" /\ shown.period = period
  /\ \E answer \in KlineAnswers(period) :
       /\ bars' = answer
       /\ klines' = CryptoKlines(enableCrypto, answer)
       /\ barred' = TRUE
       /\ fetched' = klines'
       /\ shown' = Shown("crypto_chart", "commands", period, 0, FALSE,
                         Charted(SortByDate(klines')), klines' # <<>> /\ ~terminated)
  /\ UNCHANGED defaultLimit
  /\ UNCHANGED <<baseVars, cryptoVars, dailyVars, notShowTail>>

CryptoChartInit ==
  /\ InitFetch(0) /\ InitChart(BOOLEAN) /\ InitSource(BOOLEAN) /\ InitNorm({<<>>})
  /\ InitRoute /\ InitCmd({TRUE})
  /\ QuietSeries /\ QuietList /\ QuietReply /\ QuietPlot /\ QuietKdj /\ QuietSnap /\ QuietDated
  /\ InitShow({20})

CryptoChartNext ==
  \/ \E period \in CryptoPeriods : CryptoChartBegin(period)
  \/ \E period \in CryptoPeriods : CryptoChart(period)
  \/ Terminate

CryptoChartSpec == CryptoChartInit /\ [][CryptoChartNext]_vars

\* ------------------------------------------------------------------------
\* history_price, plot_price and index_chart: the bars of the fetched series
\* that are listed or charted (src/main.py 326-376, 434-513, 573-650;
\* src/commands/stock_commands.py has the same three)
\* ------------------------------------------------------------------------

\* `max(lo, min(hi, x))`
Clamp(lo, hi, x) == IF x < lo THEN lo ELSE IF x > hi THEN hi ELSE x

\* self.default_limit = max(5, min(60, self.config.get('default_limit', 20)))
DefaultLimit(configured) == Clamp(5, 60, configured)

\* The limit argument of a chart command: absent, an integer, or text that
\* int() rejects.
NoLimit == [k |-> "none", n |-> 0]
IntLimit(n) == [k |-> "int", n |-> n]
BadLimit == [k |-> "bad", n |-> 0]

\* limit_num: default_limit, or `max(5, min(120, int(limit)))` when limit is
\* given, or default_limit again when int(limit) raises
LimitNum(limit, configured) ==
  IF limit.k = "int" THEN Clamp(5, 120, limit.n) ELSE DefaultLimit(configured)

\* The limits given to a chart command: none, below, within and above 5..120,
\* and one that is no integer.
LimitArgs == {NoLimit, IntLimit(1), IntLimit(6), IntLimit(200), BadLimit}

\* all_data[:n] and df.head(n): the first n rows
FirstRows(rows, n) == Take(rows, n)

\* What get_daily returns for a table of n days: a record per day, oldest
\* first.
FetchedDays(n) == [i \in 1..n |-> [trade_date |-> i, timestamp |-> i * MinutesPerDay]]

\* history_price: `if not all_data:` a message, else the listing of
\* all_data[:self.default_limit]
PriceList(impl) ==
  /\ shown.command = "none"
  /\ \E n \in 0..MaxFetched, ranged \in BOOLEAN :
       /\ fetched' = FetchedDays(n)
       /\ shown' = Shown("price", impl, "daily", NoLimit, ranged,
                         FirstRows(fetched', DefaultLimit(defaultLimit)), n > 0)
  /\ UNCHANGED defaultLimit
  /\ UNCHANGED <<baseVars, seriesVars, notShowTail>>

\* plot_price and index_chart with period daily, up to the fetch: `await
\* get_daily(ts_code, start or '', end or '')`
PriceChartBegin(command, impl) ==
  /\ shown.command = "none"
  /\ \E limit \in LimitArgs, ranged \in BOOLEAN :
       shown' = Fetching(command, impl, "daily", limit, ranged)
  /\ UNCHANGED <<defaultLimit, fetched>>
  /\ UNCHANGED <<baseVars, seriesVars, notShowTail>>

\* plot_price and index_chart from the return of the fetch: `if not data:` a
\* message, else df.head(limit_num) when neither start nor end is given, the
\* sort by trade_date, the lock, plot_stock_chart
PriceChart(command, impl) ==
  /\ shown.command = command /\ shown.at = "fetch" /\ shown.impl = impl
  /\ \E n \in 0..MaxFetched :
       /\ fetched' = FetchedDays(n)
       /\ shown' = Shown(command, impl, "daily", shown.limit, shown.ranged,
                         Charted(SortByDate(IF shown.ranged THEN fetched'
                                            ELSE FirstRows(fetched',
                                                           LimitNum(shown.limit, defaultLimit)))),
                         n > 0 /\ ~terminated)
  /\ UNCHANGED defaultLimit
  /\ UNCHANGED <<baseVars, seriesVars, notShowTail>>

LimitInit ==
  /\ InitFetch(0) /\ InitChart({TRUE}) /\ InitSource({TRUE}) /\ InitNorm({<<>>})
  /\ InitRoute /\ InitCmd({TRUE})
  /\ QuietSeries /\ QuietList /\ QuietReply /\ QuietPlot /\ QuietKdj /\ QuietSnap /\ QuietDated
  /\ InitShow(ConfiguredLimits)

LimitNext ==
  \/ \E impl \in Impls : PriceList(impl)
  \/ \E command \in {"price_chart", "index_chart"}, impl \in Impls :
       PriceChartBegin(command, impl)
  \/ \E command \in {"price_chart", "index_chart"}, impl \in Impls : PriceChart(command, impl)
  \/ Terminate

LimitSpec == LimitInit /\ [][LimitNext]_vars

\* ------------------------------------------------------------------------
\* The row of the US quote table that get_realtime reports and get_daily maps
\* the ticker with (src/data_source.py 471-489, 251-257)
\* ------------------------------------------------------------------------

\* s contains sub: `sub in s`
RECURSIVE Contains(_, _)
Contains(s, sub) ==
  IF Len(s) < Len(sub) THEN FALSE
  ELSE StartsWith(s, sub) \/ Contains(Tail(s), sub)

\* df['code'].str.contains(f'{search_code}$', na=False, regex=True) for a
\* ticker of ASCII letters: re.search of `T$`, which finds the ticker at the
\* end of the code or before a newline that ends it
CodeMatches(row, ticker) ==
  EndsWith(row.code, ticker) \/ EndsWith(row.code, ticker \o <<"\n">>)

\* What re.IGNORECASE takes a character for when the pattern is ASCII letters:
\* a letter matches its two cases and, for i, k and s, the dotted capital I
\* and the dotless i, the Kelvin sign and the long s.
IgnoreCase(c) ==
  IF c \in {"U+0130", "U+0131"} THEN "i"
  ELSE IF c = "U+212A" THEN "k"
  ELSE IF c = "U+017F" THEN "s"
  ELSE IF IsUpper(c) THEN LowerCh(c)[1]
  ELSE c
Fold(s) == [i \in DOMAIN s |-> IgnoreCase(s[i])]

\* df['name'].str.contains(search_code, case=False, na=False): re.search of
\* the ticker, a pattern of ASCII letters, with re.IGNORECASE
NameMatches(row, ticker) == Contains(Fold(row.name), Fold(ticker))

\* df[mask]: the rows that match, in the table's order
CodeMatch(table, ticker) == SelectSeq(table, LAMBDA row : CodeMatches(row, ticker))
NameMatch(table, ticker) == SelectSeq(table, LAMBDA row : NameMatches(row, ticker))

\* get_realtime: the match on the code, `if (match is None or match.empty)`
\* the match on the name
RealtimeMatch(table, ticker) ==
  IF CodeMatch(table, ticker) # <<>> THEN CodeMatch(table, ticker)
  ELSE NameMatch(table, ticker)

\* What an operation chose: match.iloc[0], or nothing
Picked(op, match) ==
  IF match = <<>> THEN [op |-> op, found |-> FALSE, row |-> Quote(<<>>, <<>>)]
  ELSE [op |-> op, found |-> TRUE, row |-> match[1]]

\* get_realtime('<ticker>.US'): search_code = stock_code.upper(); the row
\* reported is match.iloc[0]. Nothing is looked up when US stocks are
\* disabled or the table is empty.
PickRealtime ==
  /\ picked.op = "none"
  /\ picked' = Picked("get_realtime",
                      IF enableUs THEN RealtimeMatch(snapshot, Upper(wanted)) ELSE <<>>)
  /\ UNCHANGED <<snapshot, wanted>>
  /\ UNCHANGED <<baseVars, seriesVars, notSnapTail>>

\* get_daily('<ticker>.US'): us_symbol = stock_code.upper(); the history is
\* requested under exact_match.iloc[0]['code']
PickDaily ==
  /\ picked.op = "none"
  /\ picked' = Picked("get_daily",
                      IF enableUs THEN CodeMatch(snapshot, Upper(wanted)) ELSE <<>>)
  /\ UNCHANGED <<snapshot, wanted>>
  /\ UNCHANGED <<baseVars, seriesVars, notSnapTail>>

\* The rows of the quote tables: the ticker AB, a ticker that ends with AB, a
\* company whose name contains "ab", one with neither, a code that ends with a
\* newline after the ticker KI, and a name that matches "ki" only when case is
\* ignored the way re.IGNORECASE does.
QuoteRows ==
  { Quote(<<"1", "0", "5", ".", "A", "B">>, <<"X", "y">>),
    Quote(<<"1", "0", "6", ".", "C", "A", "B">>, <<"Z", "z">>),
    Quote(<<"1", "0", "5", ".", "C", "D">>, <<"T", "a", "b">>),
    Quote(<<"1", "0", "6", ".", "E", "F">>, <<"Q", "q">>),
    Quote(<<"1", "0", "7", ".", "K", "I", "\n">>, <<"N", "n">>),
    Quote(<<"1", "0", "7", ".", "G", "H">>, <<"U+212A", "U+0131">>) }

WantedTickers == {<<"A", "B">>, <<"a", "b">>, <<"C", "D">>, <<"K", "I">>}

SnapInit ==
  /\ InitFetch(0) /\ InitChart({TRUE}) /\ InitSource(BOOLEAN) /\ InitNorm({<<>>})
  /\ InitRoute /\ InitCmd({TRUE})
  /\ QuietSeries /\ QuietList /\ QuietReply /\ QuietPlot /\ QuietKdj /\ QuietShow /\ QuietDated
  /\ InitSnap(QuoteRows, MaxQuotes, WantedTickers)

SnapNext == PickRealtime \/ PickDaily

SnapSpec == SnapInit /\ [][SnapNext]_vars

\* ------------------------------------------------------------------------
\* get_daily: from start_date and end_date to the days of the records
\* (src/data_source.py 176-391)
\* ------------------------------------------------------------------------

\* Days are counted from the first day of the providers' history; the call is
\* made on day Today, the last one.

\* A date argument that is not given ('' or None: `if not start_date`)
NoDate == 0

\* start_date and end_date after the defaults: `datetime.now() -
\* timedelta(days=self._default_days_back)` and `datetime.now()`
StartDate(start) == IF start = NoDate THEN Today - daysBack ELSE start
EndDate(end) == IF end = NoDate THEN Today ELSE end

\* `from datetime import datetime, timedelta` stands inside `if not
\* start_date:` and makes the name local to get_daily: with a start_date and
\* no end_date, `datetime.now()` raises UnboundLocalError, and the outer
\* handler returns [].
Unbound(start, end) == start # NoDate /\ end = NoDate

\* ak.stock_zh_a_hist, ak.stock_hk_hist and ak.stock_us_hist are called with
\* start_date and end_date and answer with the days between them
RangedHist(start, end) ==
  LET first == IF start < 1 THEN 1 ELSE start
      last == IF end > Today THEN Today ELSE end
  IN  [i \in 1..(IF last >= first THEN last - first + 1 ELSE 0) |-> first + i - 1]

\* ak.stock_us_daily is called with symbol and adjust only and answers with
\* its whole history
WholeHist == [i \in 1..Today |-> i]

\* The strategy that supplied the table: the only provider of the market, or
\* for a US symbol the primary one if the quote table mapped the ticker and
\* the history it gave has rows, and else the secondary (`if df is None or
\* df.empty:`).
Supplier(sym, primary, ranged) ==
  IF sym # "us" THEN "hist"
  ELSE IF primary = "rows" /\ ranged # <<>> THEN "us_hist" ELSE "us_daily"

\* sort descending, head(max_records), sort ascending: the latest days
LatestDays(days, max) ==
  SubSeq(days, (IF Len(days) > max THEN Len(days) - max + 1 ELSE 1), Len(days))

\* get_daily(symbol, start_date, end_date), by the days of its records
DatedDaily(sym, start, end, primary) ==
  LET off == (sym = "hk" /\ ~enableHk) \/ (sym = "us" /\ ~enableUs)
      ranged == RangedHist(StartDate(start), EndDate(end))
      supplier == Supplier(sym, primary, ranged)
      table == IF supplier = "us_daily" THEN WholeHist ELSE ranged
  IN  [sym |-> sym, start |-> start, end |-> end,
       from |-> StartDate(start), to |-> EndDate(end),
       supplier |-> IF off \/ Unbound(start, end) THEN "none" ELSE supplier,
       days |-> IF off \/ Unbound(start, end) THEN <<>> ELSE LatestDays(table, dailyMax)]

GetDailyDated ==
  /\ dated.sym = "none"
  /\ \E sym \in StockSyms, start \in 0..MaxDay, end \in 0..MaxDay :
       \E primary \in (IF sym = "us" THEN {"rows", "fails"} ELSE {"rows"}) :
         dated' = DatedDaily(sym, start, end, primary)
  /\ UNCHANGED daysBack
  /\ UNCHANGED <<baseVars, seriesVars, notDatedTail>>

DatedInit ==
  /\ InitFetch(0) /\ InitChart({TRUE}) /\ InitSource(BOOLEAN) /\ InitNorm({<<>>})
  /\ InitRoute /\ InitCmd({TRUE})
  /\ InitCrypto({<<>>}, {<<>>}) /\ InitDaily({NoLayout}, 0, {2, MaxDay}, {"neither"}, {}) /\ InitKlines(0)
  /\ QuietList /\ QuietReply /\ QuietPlot /\ QuietKdj /\ QuietShow /\ QuietSnap
  /\ InitDated({1, 3})

DatedNext == GetDailyDated

DatedSpec == DatedInit /\ [][DatedNext]_vars

\* ------------------------------------------------------ chart commands
ChartKinds == {"price_chart", "index_chart", "crypto_chart"}

\* crypto_chart returns before the lock when chart generation is disabled; the
\* stock and index chart commands have no such test.
ChecksChartFlag(k) == k = "crypto_chart"

\* The commands inside the `async with self._lock:` block.
InBlock == {c \in Cmds : cpc[c] \in {"rendering", "rendered"}}

\* asyncio.Lock.acquire takes the lock at once only if it is not locked and
\* no earlier command waits for it.
LockFreeAlways == TRUE
LockFree == ~locked /\ waiters = <<>>

\* plot_stock_chart: "" when chart generation is disabled, the name of the
\* image file, or None when drawing raised.
RenderResults == IF enableChart THEN {"file", "None"} ELSE {""}

\* `if not chart_file: return plain_result(...)`, else `return image_result(...)`
ReplyFor(f) == IF f = "file" THEN "image" ELSE "message"

\* A chart command runs up to its `async with`: validation, the feature
\* flags, the history fetch, the data checks and the title. Any of these may
\* return a message (or raise into the command's except clause).
ChartBegin(c, k) ==
  /\ cpc[c] = "idle"
  /\ \/ /\ cpc' = [cpc EXCEPT ![c] = "done"]
        /\ reply' = [reply EXCEPT ![c] = "message"]
     \/ /\ ChecksChartFlag(k) => enableChart
        /\ cpc' = [cpc EXCEPT ![c] = "ready"]
        /\ reply' = reply
  /\ UNCHANGED <<enableChart, chartFile, locked, waiters, terminated>>
  /\ UNCHANGED nonChartVars

\* `async with self._lock:` is entered. Without the attribute the command's
\* except clause answers; a free lock is taken; otherwise the command joins
\* the waiters.
LockEnter(c) ==
  /\ cpc[c] = "ready"
  /\ IF terminated
     THEN /\ cpc' = [cpc EXCEPT ![c] = "done"]
          /\ reply' = [reply EXCEPT ![c] = "message"]
          /\ UNCHANGED <<locked, waiters>>
     ELSE IF LockFree
     THEN /\ locked' = TRUE
          /\ cpc' = [cpc EXCEPT ![c] = "rendering"]
          /\ UNCHANGED <<reply, waiters>>
     ELSE /\ waiters' = Append(waiters, c)
          /\ cpc' = [cpc EXCEPT ![c] = "waiting"]
          /\ UNCHANGED <<reply, locked>>
  /\ UNCHANGED <<enableChart, chartFile, terminated>>
  /\ UNCHANGED nonChartVars

\* The oldest waiter was woken by release() and takes the lock.
LockGrant(c) ==
  /\ cpc[c] = "waiting"
  /\ ~locked
  /\ waiters # <<>> /\ Head(waiters) = c
  /\ locked' = TRUE
  /\ waiters' = Tail(waiters)
  /\ cpc' = [cpc EXCEPT ![c] = "rendering"]
  /\ UNCHANGED <<enableChart, chartFile, reply, terminated>>
  /\ UNCHANGED nonChartVars

\* chart_file = plot_stock_chart(df, title)
RenderEnd(c) ==
  /\ cpc[c] = "rendering"
  /\ \E f \in RenderResults : chartFile' = [chartFile EXCEPT ![c] = f]
  /\ cpc' = [cpc EXCEPT ![c] = "rendered"]
  /\ UNCHANGED <<enableChart, reply, locked, waiters, terminated>>
  /\ UNCHANGED nonChartVars

\* Either `return` of the block leaves the `async with`: release(), then the
\* reply goes out.
LockExit(c) ==
  /\ cpc[c] = "rendered"
  /\ locked' = FALSE
  /\ cpc' = [cpc EXCEPT ![c] = "done"]
  /\ reply' = [reply EXCEPT ![c] = ReplyFor(chartFile[c])]
  /\ UNCHANGED <<enableChart, chartFile, waiters, terminated>>
  /\ UNCHANGED nonChartVars

ChartInit ==
  /\ InitFetch(0) /\ InitChart(BOOLEAN) /\ InitSource({TRUE}) /\ InitNorm({<<>>})
  /\ InitMore

ChartNext ==
  \/ \E c \in Cmds, k \in ChartKinds : ChartBegin(c, k)
  \/ \E c \in Cmds : LockEnter(c)
  \/ \E c \in Cmds : LockGrant(c)
  \/ \E c \in Cmds : RenderEnd(c)
  \/ \E c \in Cmds : LockExit(c)
  \/ Terminate

\* plot_stock_chart returns, the block is left, and the event loop resumes a
\* woken waiter. Nothing makes a command reach the lock.
ChartSpec ==
  /\ ChartInit
  /\ [][ChartNext]_vars
  /\ \A c \in Cmds :
       /\ WF_vars(LockGrant(c))
       /\ WF_vars(RenderEnd(c))
       /\ WF_vars(LockExit(c))

\* ------------------------------------------------------------ properties
PoolReq(r) == site[r] \in PoolSites

\* The attempts (calls of _fetch_with_timeout) a request has made so far.
AttemptsMade(r) == Cardinality({a \in Attempts : tstate[<<r, a>>] # "none"})

RECURSIVE SumSeq(_)
SumSeq(q) == IF q = <<>> THEN 0 ELSE Head(q) + SumSeq(Tail(q))

\* C1: retry makes one attempt at a time, at most max_retries+1 of them; it
\* returns the result of the first attempt that succeeds and makes no further
\* attempt; a request that ends with a Timeout or network failure has made
\* exactly max_retries+1 attempts, all failed retryably, and raises the last
\* failure it observed.
C1_RetryAttempts ==
  \A r \in Requests : PoolReq(r) =>
    /\ AttemptsMade(r) = attempt[r] + (IF pc[r] = "sleep" THEN 0 ELSE 1)
    /\ AttemptsMade(r) <= MaxRetriesOf(r) + 1
    /\ \A a \in Attempts :
         (<<r, a>> \notin abandoned /\ tstate[<<r, a>>] \in {"queued", "running"})
            => (a = attempt[r] /\ pc[r] = "await")
    /\ \A i \in 1..(Len(fails[r]) - 1) : fails[r][i] \in {"Timeout", "Network"}
    /\ (pc[r] = "done") = (raised[r] # "none")
    /\ raised[r] = "ok" =>
         /\ delivered[r] = attempt[r]
         /\ tstate[<<r, attempt[r]>>] = "finished"
         /\ Len(fails[r]) = attempt[r]
         /\ \A a \in Attempts : a > attempt[r] => tstate[<<r, a>>] = "none"
    /\ raised[r] \in {"Timeout", "Network"} =>
         /\ AttemptsMade(r) = MaxRetriesOf(r) + 1
         /\ Len(fails[r]) = MaxRetriesOf(r) + 1
         /\ raised[r] = fails[r][Len(fails[r])]

\* max_retries = 2, every attempt timed out: 3 attempts, then the Timeout.
C1_Witness ==
  \E r \in Requests :
    /\ site[r] = "binance" /\ cfgRetries = 2
    /\ pc[r] = "done" /\ raised[r] = "Timeout"
    /\ fails[r] = <<"Timeout", "Timeout", "Timeout">>
    /\ AttemptsMade(r) = 3

\* C2: a failure that is neither a Timeout nor a network failure is the last
\* thing its request sees: it is raised to the caller on the attempt it
\* occurs, with no later attempt and no later backoff sleep.
C2_OtherPropagates ==
  \A r \in Requests : PoolReq(r) =>
    \A i \in 1..Len(fails[r]) : fails[r][i] = "Other" =>
      /\ i = Len(fails[r])
      /\ pc[r] = "done"
      /\ raised[r] = "Other"
      /\ attempt[r] = i - 1
      /\ Len(sleeps[r]) = i - 1
      /\ \A a \in Attempts : a >= i => tstate[<<r, a>>] = "none"

\* A permanent failure on the first attempt although 3 retries were allowed.
C2_Witness ==
  \E r \in Requests :
    /\ site[r] = "binance" /\ cfgRetries = 3 /\ raised[r] = "Other"
    /\ fails[r] = <<"Other">> /\ AttemptsMade(r) = 1 /\ sleeps[r] = <<>>

\* The backoff before retry number i, as the claim gives it: min(2^i, 5).
ExpectedSleep(i) == IF i = 1 THEN 2 ELSE IF i = 2 THEN 4 ELSE 5

\* C3: there is exactly one sleep before each retry and none before the first
\* attempt or after the last one; the sleep before retry i lasts
\* min(2^i, 5) seconds; with max_retries = 2 and three timeouts the sleeps
\* add up to 2+4 = 6 >= 3 seconds.
C3_Backoff ==
  \A r \in Requests : PoolReq(r) =>
    /\ Len(sleeps[r]) = attempt[r]
    /\ Len(sleeps[r]) = AttemptsMade(r) - (IF pc[r] = "sleep" THEN 0 ELSE 1)
    /\ Len(sleeps[r]) <= MaxRetriesOf(r)
    /\ \A i \in 1..Len(sleeps[r]) : sleeps[r][i] = ExpectedSleep(i)
    /\ pc[r] = "sleep" => (attempt[r] >= 1 /\ Len(fails[r]) = attempt[r])
    /\ (pc[r] = "done" /\ MaxRetriesOf(r) = 2
          /\ fails[r] = <<"Timeout", "Timeout", "Timeout">>)
         => (sleeps[r] = <<2, 4>> /\ SumSeq(sleeps[r]) >= 3)

\* The cap is reached: the third retry sleeps 5 s, not 8.
C3_Witness ==
  \E r \in Requests :
    /\ pc[r] = "done" /\ sleeps[r] = <<2, 4, 5>>
    /\ AttemptsMade(r) = 4 /\ raised[r] = "Timeout"

\* C5: no provider call runs on the event-loop thread.
C5_NoProviderOnLoop == loopBusy = 0

\* C6: at most 3 operations run on the pool; a result is only ever returned
\* from the attempt being awaited, never from a task whose fetch timed out;
\* a running task whose fetch timed out keeps running until it completes, and
\* its result is then dropped.
C6_PoolInv ==
  /\ Cardinality(Running) <= 3
  /\ \A r \in Requests : delivered[r] # -1 =>
       /\ <<r, delivered[r]>> \notin abandoned
       /\ tstate[<<r, delivered[r]>>] = "finished"
       /\ raised[r] = "ok"
  /\ \A t \in abandoned :
       tstate[t] \in {"queued", "cancelled", "running", "discarded", "finished"}

C6_PoolStep ==
  \A t \in Tasks : (t \in abandoned /\ tstate[t] = "running")
      => (tstate'[t] \in {"running", "discarded"} /\ t \in abandoned')

C6_Pool == []C6_PoolInv /\ [][C6_PoolStep]_vars

\* The pool is full, one of the running tasks was abandoned by its fetch, and
\* another abandoned task has completed and lost its result.
C6_Witness ==
  /\ Cardinality(Running) = 3
  /\ \E t \in abandoned : tstate[t] = "running"
  /\ \E t \in abandoned : tstate[t] = "discarded"

\* C4: every fetch that is awaited ends, and every call of retry returns or
\* raises, whatever the operations do, those of the other requests included,
\* and however full the pool is.
C4_Completes ==
  \A r \in Requests :
    /\ (pc[r] = "await") ~> (pc[r] # "await")
    /\ (pc[r] \in {"await", "sleep"}) ~> (pc[r] = "done")

RECURSIVE SeqToSet(_)
SeqToSet(q) == IF q = <<>> THEN {} ELSE {Head(q)} \cup SeqToSet(Tail(q))

\* C7: all chart commands share one lock: at most one command is inside the
\* locked block, so at most one render is in progress; the lock is held
\* exactly while a command is inside the block, so it is free again after a
\* render that produced a file, after one that failed, and after the early
\* return for an empty result; a command that returned before the block never
\* rendered; and a command waiting for the lock eventually renders.
C7_LockInv ==
  /\ Cardinality(InBlock) <= 1
  /\ locked = (InBlock # {})
  /\ SeqToSet(waiters) = {c \in Cmds : cpc[c] = "waiting"}
  /\ Len(waiters) = Cardinality(SeqToSet(waiters))
  /\ \A c \in Cmds :
       /\ cpc[c] \in {"idle", "ready", "waiting", "rendering"} => chartFile[c] = "unset"
       /\ cpc[c] = "done" => reply[c] = ReplyFor(chartFile[c])
       /\ cpc[c] = "rendered" => chartFile[c] \in {"file", "None", ""}

C7_ChartLock ==
  /\ []C7_LockInv
  /\ \A c \in Cmds : (cpc[c] = "waiting") ~> (cpc[c] = "rendering")

\* One render failed and its command has answered, a second command renders
\* now, a third waits for the lock.
C7_Witness ==
  \E c1, c2, c3 \in Cmds :
    /\ cpc[c1] = "done" /\ chartFile[c1] = "None" /\ reply[c1] = "message"
    /\ cpc[c2] = "rendering"
    /\ cpc[c3] = "waiting" /\ waiters = <<c3>>

\* The values an operation returns when it has nothing to report.
EmptyValues == {"[]", "{}", "error"}

\* What each operation may return at all.
ReturnShapes(op) ==
  CASE op \in {"get_daily", "get_hourly", "get_minutely",
               "get_crypto_list", "get_crypto_klines"} -> {"[]", "rows"}
    [] op = "get_realtime"       -> {"{}", "error", "quote"}
    [] op = "get_index_realtime" -> {"{}", "quote"}
    [] op = "get_crypto_price"   -> {"error", "quote"}
    [] op = "get_exchange_info"  -> {"{}", "info"}

NoData(p) == p \in FailureKinds \cup {"empty", "null"}

\* The provider gave the call nothing: it raised or timed out on every
\* attempt, or returned an empty response; for the US history, which has a
\* fallback, both ways to the history did so.
ProviderFailed(c) ==
  IF c.op = "get_daily" /\ c.sym = "us"
  THEN (~UsMapped(c.p1) \/ NoData(c.p2)) /\ NoData(c.p3)
  ELSE NoData(c.p1)

BadSymbol(c) == c.sym \in {"invalid", "nonstr"}

Disabled(c) ==
  \/ c.op \in {"get_crypto_price", "get_crypto_list", "get_exchange_info",
               "get_crypto_klines"} /\ ~enableCrypto
  \/ c.op = "get_daily" /\ c.sym = "hk" /\ ~enableHk
  \/ c.op \in {"get_daily", "get_realtime"} /\ c.sym = "us" /\ ~enableUs

\* The response an operation works from: the provider's, and for the US
\* history the table its two strategies leave.
Answer(c) ==
  IF c.op = "get_daily" /\ c.sym = "us" THEN UsFrame(c.p1, c.p2, c.p3) ELSE c.p1

\* The provider answered with rows that lack the expected columns or keys, or
\* whose fields do not convert to numbers.
Malformed(c) == Answer(c) \in {"malformed", "badrows"}

\* Where the code fills in for what a response lacks instead of giving up:
\* get_daily takes columns by position and 0 for a missing value, the US quote
\* takes 0 for a field that does not convert, get_crypto_price and
\* get_exchange_info read their keys with .get() and a default.
Defaulted(c) ==
  \/ c.op = "get_daily" /\ Answer(c) = "malformed"
  \/ c.op = "get_realtime" /\ c.sym = "us" /\ Answer(c) = "badrows"
  \/ c.op \in {"get_crypto_price", "get_exchange_info"} /\ Answer(c) = "malformed"
\* C9: a bare 6-digit code gets ".SH" exactly when its first digit is 6, 9 or
\* 5, gets ".SZ" exactly when its first digit is 0, 1, 2 or 3, and is returned
\* as it is, without a suffix, when its first digit is 4, 7 or 8. A bare
\* 6-digit code is what the rule's own pattern ^\d{6}$ accepts, and its first
\* digit is the decimal digit its first character stands for.
C9_BareRouting ==
  (npc # "input" /\ Bare6(code)) =>
    /\ (once = code \o <<".", "S", "H">>) = (DigitValue(code[1]) \in {6, 9, 5})
    /\ (once = code \o <<".", "S", "Z">>) = (DigitValue(code[1]) \in {0, 1, 2, 3})
    /\ DigitValue(code[1]) \in {4, 7, 8} => once = code

\* C10: normalizing a normalized code changes nothing, for every input: any
\* case, with or without surrounding whitespace, matched by a rule or by none.
C10_Idempotent == npc = "twice" => twice = once

\* A padded, lower-case Hong Kong code was rewritten, and rewriting the
\* result again left it as it was.
C10_Witness ==
  /\ npc = "twice"
  /\ code = <<" ", "h", "k", "7", "0", "0", " ">>
  /\ once = <<"0", "0", "7", "0", "0", ".", "H", "K">>
  /\ twice = once

\* ---------------------------------------------------------------------------
\* Canonical form and the letters in it.

HasLower(s) == \E i \in 1..Len(s) : IsLower(s[i])

\* C11: every string the normalizer returns and the canonical pattern accepts
\* contains no lower-case letter.
C11_CanonicalUpper ==
  (npc # "input" /\ IsStandard(once)) => ~HasLower(once)

\* ---------------------------------------------------------------------------
\* Inputs that no rule of the normalizer matches.

RuleMatches(s) ==
  LET t == Upper(Strip(s))
      l == Lower(t)
  IN  \/ IsStandard(s)
      \/ Bare6(t) /\ t[1] \in ShanghaiLead \cup ShenzhenLead
      \/ ShSzPrefixed(l)
      \/ SixDotSuffix(t) /\ (ShanghaiAlias(Upper(From(t, 8))) \/ ShenzhenAlias(Upper(From(t, 8))))
      \/ ShSzDotted(l)
      \/ HkPrefixed(l)
      \/ HkSuffixed(l)
      \/ UsPrefixed(l)
      \/ BareTicker(t)

\* C12: an input no rule matches is returned unchanged by the normalizer and
\* rejected by its callers, get_daily, get_realtime, get_hourly and
\* get_minutely calling no provider and _validate_stock_code returning False;
\* no provider is called under a symbol the canonical pattern does not accept.
C12_UnmatchedRejected ==
  route.op # "none" =>
    /\ ~RuleMatches(code) =>
         /\ validate_and_correct_stock_code(code) = code
         /\ route.provider = "none"
         /\ ~route.ok
    /\ route.provider # "none" => IsStandard(route.sym)

\* ---------------------------------------------------------------------------
\* Stock commands and the symbols they pass on.

StockCmds == {"price", "price_now", "price_chart"}

\* C13: price, price_now and price_chart, with auto-correction on or off, call
\* the data source only with a symbol that matches the canonical pattern and
\* is not an index code; an index symbol is answered with the redirect and an
\* invalid one with the format message, both without a provider call.
C13_StockCommands ==
  cmd.name \in StockCmds =>
    /\ cmd.reply \in {"format", "redirect", "unsupported", "data"}
    /\ route.op # "none" => cmd.reply = "data" /\ route.sym = cmd.sym
    /\ cmd.reply = "data" => IsStandard(cmd.sym) /\ ~IsIndexCode(cmd.sym)
    /\ cmd.reply = "redirect" =>
         IsStandard(cmd.sym) /\ IsIndexCode(cmd.sym) /\ route = NoRoute
    /\ cmd.reply = "format" =>
         /\ ~IsStandard(code)
         /\ autoCorrect => ~IsStandard(validate_and_correct_stock_code(code))
         /\ route = NoRoute
    /\ (~IsStandard(code)
        /\ (autoCorrect => ~IsStandard(validate_and_correct_stock_code(code))))
         => cmd.reply = "format"

\* A prefixed code was corrected by the command and its history requested
\* under the corrected symbol.
C13_Witness ==
  /\ cmd.name = "price" /\ cmd.impl = "commands" /\ autoCorrect
  /\ code = <<"s", "h", "6", "0", "0", "0", "0", "1">>
  /\ cmd.reply = "data"
  /\ cmd.sym = <<"6", "0", "0", "0", "0", "1", ".", "S", "H">>
  /\ route.op = "get_daily" /\ route.provider = "stock_zh_a_hist"
  /\ route.arg = <<"6", "0", "0", "0", "0", "1">>

\* ---------------------------------------------------------------------------
\* Index commands.

IndexCmds == {"index", "index_chart"}

\* 6 digits plus .SH or .SZ
WellFormedIndex(s) ==
  Len(s) = 9 /\ AllDigits(Sub(s, 1, 6)) /\ From(s, 7) \in {DotSH, DotSZ}

\* C14: in both implementations of index and index_chart the alias table is
\* consulted, case-insensitively, before the digit-prefix rule; the two give
\* the same decision and the same normalized code for every input; a provider
\* is called only with a well-formed index symbol, 6 digits plus .SH or .SZ,
\* that satisfies is_index.
C14_IndexCommands ==
  cmd.name \in IndexCmds =>
    /\ IndexInline(code) = IndexByCommands(code)
    /\ InIndexMap(Lower(code)) => cmd.sym = IndexMap(Lower(code)) /\ cmd.reply = "data"
    /\ route.provider # "none" => WellFormedIndex(cmd.sym) /\ IsIndexCode(cmd.sym)

\* ---------------------------------------------------------------------------
\* Crypto pairs.

USDT == <<"U", "S", "D", "T">>
BTC == <<"B", "T", "C">>
QuoteNames == {USDT, BTC, <<"E", "T", "H">>, <<"B", "N", "B">>}

\* base, upper-cased and trimmed, and the quote, the default if none is given
TrimmedBase == Strip(Upper(cbase))
GivenQuote == Upper(IF cquote = <<>> THEN USDT ELSE cquote)

\* base ends with a supported quote currency and is strictly longer
AlreadyPair(b) ==
  \E v \in QuoteNames :
    Len(b) > Len(v) /\ SubSeq(b, Len(b) - Len(v) + 1, Len(b)) = v

SelfQuote(b, q) == b = q /\ b \in QuoteNames

\* C15 (as amended): normalize_crypto returns the empty string for an empty
\* base; otherwise, with base upper-cased and trimmed and the quote defaulting
\* to the configured one, it returns base if base ends with a supported quote
\* and is strictly longer, else base if base equals the quote and is a
\* supported currency, else base+quote. So "BTC" gives "BTCUSDT", "BTCUSDT"
\* gives "BTCUSDT" and ("USDT", "USDT") gives "USDT"; a non-empty base is
\* expanded with the quote unless it is such a pair or the quote itself.
C15_CryptoPair ==
  paired =>
    /\ cbase = <<>> => pair = <<>>
    /\ (cbase # <<>> /\ AlreadyPair(TrimmedBase)) => pair = TrimmedBase
    /\ (cbase # <<>> /\ ~AlreadyPair(TrimmedBase) /\ SelfQuote(TrimmedBase, GivenQuote))
         => pair = TrimmedBase
    /\ (cbase # <<>> /\ ~AlreadyPair(TrimmedBase) /\ ~SelfQuote(TrimmedBase, GivenQuote))
         => pair = TrimmedBase \o GivenQuote
    /\ (cbase = BTC /\ cquote = <<>>) => pair = BTC \o USDT
    /\ (cbase = BTC \o USDT /\ cquote = <<>>) => pair = BTC \o USDT
    /\ (cbase = USDT /\ cquote = USDT) => pair = USDT

\* A padded lower-case base was expanded with the default quote.
C15_Witness ==
  /\ paired
  /\ cbase = <<" ", "b", "t", "c", " ">> /\ cquote = <<>>
  /\ pair = <<"B", "T", "C", "U", "S", "D", "T">>

\* C15 (as stated): the same three rules for every base, and a base that is
\* not already a full pair is always expanded with the quote.
C15_AlwaysExpanded ==
  paired =>
    /\ pair = IF AlreadyPair(TrimmedBase) THEN TrimmedBase
              ELSE IF SelfQuote(TrimmedBase, GivenQuote) THEN TrimmedBase
              ELSE TrimmedBase \o GivenQuote
    /\ ~AlreadyPair(TrimmedBase) => pair = TrimmedBase \o GivenQuote

\* ---------------------------------------------------------------------------
\* The records of get_daily.

\* a percentage equal to the whole number p
PctIs(f, p) == f.n = p * f.d

\* C16: in every list get_daily returns, the first record has pre_close = its
\* own close, change = 0 and pct_chg = 0; every later record has pre_close =
\* the close of the record before it in the list, change = close - pre_close,
\* and pct_chg = change / pre_close * 100 when pre_close is not 0, else 0;
\* also when rows were skipped. Closes 10, 12, 9 give (10, 0, 0), (10, 2, 20),
\* (12, -3, -25).
C16_DailyChain ==
  listed =>
    /\ records # <<>> =>
         /\ records[1].pre_close = records[1].close
         /\ records[1].change = 0
         /\ PctIs(records[1].pct_chg, 0)
    /\ \A i \in 2..Len(records) :
         /\ records[i].pre_close = records[i - 1].close
         /\ records[i].change = records[i].close - records[i].pre_close
         /\ records[i].pre_close # 0 =>
              records[i].pct_chg.n * records[i].pre_close
                = records[i].change * 100 * records[i].pct_chg.d
         /\ records[i].pre_close = 0 => PctIs(records[i].pct_chg, 0)
         /\ records[i].pct_chg.d # 0
    /\ [i \in DOMAIN records |-> records[i].close] = <<10, 12, 9>> =>
         /\ records[2].pre_close = 10 /\ records[2].change = 2
         /\ PctIs(records[2].pct_chg, 20)
         /\ records[3].pre_close = 12 /\ records[3].change = -3
         /\ PctIs(records[3].pct_chg, -25)

\* Of three rows the middle one did not parse; the third record refers to the
\* close of the first.
C16_Witness ==
  /\ listed /\ columns = NamedLayout /\ dailyMax = 3
  /\ Len(frame) = 3
  /\ \E i \in 1..3 : frame[i]["date"] = Num(2) /\ frame[i]["close"] = BadCell
  /\ Len(records) = 2
  /\ records[1].trade_date = 1 /\ records[1].close = 12
  /\ records[2].trade_date = 3 /\ records[2].close = 9
  /\ records[2].pre_close = 12 /\ records[2].change = -3
  /\ PctIs(records[2].pct_chg, -25)

\* the date of a row of the table, read from the column the layout has it in
RowDate(row) == row[ColumnOr(columns, DateNames, 1)].v

\* the number of rows of the table dated after d
LaterRows(d) == Cardinality({i \in DOMAIN frame : RowDate(frame[i]) > d})

\* C17: get_daily returns at most daily_max_records records; they are rows
\* with the latest dates among the rows of the provider's table, and they are
\* in ascending date order, oldest first, whatever the order of the rows and
\* the layout of the columns.
C17_LatestAscending ==
  listed =>
    /\ Len(records) <= dailyMax
    /\ \A i \in DOMAIN records : LaterRows(records[i].trade_date) < dailyMax
    /\ \A i, j \in DOMAIN records : i < j => records[i].trade_date < records[j].trade_date

\* get_crypto_klines returns the records in the reverse of fetch order, newest
\* first; each record's change and pct_chg are relative to the close of the
\* next record of the list, and the last record has change 0 and pct_chg 0.
KlinesNewestFirst ==
  barred =>
    /\ \A i, j \in DOMAIN klines : i < j => klines[i].timestamp > klines[j].timestamp
    /\ \A i \in DOMAIN klines :
         IF i = Len(klines)
         THEN klines[i].change = 0 /\ klines[i].pct_chg.n = 0
         ELSE /\ klines[i].change = klines[i].close - klines[i + 1].close
              /\ klines[i + 1].close # 0 =>
                   klines[i].pct_chg.n * klines[i + 1].close
                     = klines[i].change * 100 * klines[i].pct_chg.d
              /\ klines[i + 1].close = 0 => klines[i].pct_chg.n = 0

\* get_daily returns its records oldest first
DailyOldestFirst ==
  listed => \A i, j \in DOMAIN records :
              i < j => records[i].trade_date < records[j].trade_date

\* C18: for every nonempty success get_crypto_klines returns the bars newest
\* first, the reverse of fetch order, while get_daily returns oldest first;
\* each crypto bar's change and pct_chg are relative to the close of the
\* chronologically preceding parsed bar, the next element of the returned list,
\* and the oldest bar, the last element, has change 0 and pct_chg 0.
C18_NewestFirst == KlinesNewestFirst /\ DailyOldestFirst

\* the market of the symbol an operation was given is switched off
MarketOff(r) ==
  \/ r.op \in CryptoOps /\ ~enableCrypto
  \/ r.op \in {"get_daily", "get_realtime"} /\ EndsWith(r.sym, DotHK) /\ ~enableHk
  \/ r.op \in {"get_daily", "get_realtime"} /\ EndsWith(r.sym, DotUS) /\ ~enableUs

\* C19: when the market of the requested symbol (US, HK or crypto) is
\* disabled in the configuration, the operation calls no provider at any
\* point of the request; this holds for get_daily and get_realtime on .HK and
\* .US symbols and for every crypto operation.
C19_DisabledNoProvider == MarketOff(route) => route.provider = "none"

\* get_realtime was asked for a symbol of one of the three markets and the
\* provider timed out or its table had no row of the symbol, or the market
\* was switched off
RealtimeFailed(c) ==
  /\ c.op = "get_realtime"
  /\ c.sym \in {"a", "hk", "us"}
  /\ \/ c.p1 \in {"Timeout", "nomatch"}
     \/ c.sym = "us" /\ ~enableUs
     \/ c.sym = "hk" /\ ~enableHk

\* C20: for every market (A-share, HK, US), when the provider call of
\* get_realtime times out or the snapshot table has no row matching the
\* symbol, get_realtime returns a structured error object carrying all three
\* of error, ts_code and suggestion; the same object shape is returned for a
\* disabled market.
C20_StructuredError ==
  RealtimeFailed(srcCall) => {"error", "ts_code", "suggestion"} \subseteq srcKeys

\* the primary strategy gave get_daily a table with rows in it
PrimaryNonempty(c) ==
  UsMapped(c.p1) /\ c.p2 \in {"rows", "nomatch", "malformed", "badrows"}

\* the secondary strategy gave a table with rows in it
SecondaryNonempty(c) == c.p3 \in {"rows", "nomatch", "malformed", "badrows"}

Position(q, x) == CHOOSE i \in DOMAIN q : q[i] = x

\* C21: for a .US symbol with the US market enabled, get_daily tries the
\* primary strategy (the quote table's code mapping, then stock_us_hist) first
\* and the secondary one (stock_us_daily) exactly when the primary yielded no
\* nonempty table, whether by timeout, exception, missing mapping or an empty
\* result; the secondary is never called after a nonempty primary result, and
\* the empty list is returned when both yield nothing.
C21_StrategyOrder ==
  (srcCall.op = "get_daily" /\ srcCall.sym = "us" /\ enableUs) =>
    /\ srcTrace # <<>> /\ srcTrace[1] = "stock_us_spot_em"
    /\ SeqHas(srcTrace, "stock_us_hist") => Position(srcTrace, "stock_us_hist") = 2
    /\ SeqHas(srcTrace, "stock_us_daily") =>
         Position(srcTrace, "stock_us_daily") = Len(srcTrace)
    /\ SeqHas(srcTrace, "stock_us_daily") = ~PrimaryNonempty(srcCall)
    /\ (~PrimaryNonempty(srcCall) /\ ~SecondaryNonempty(srcCall)) => srcResult = Ret("[]")

\* a ticker of a pair quoted in the configured default currency, with volume
InDefaultQuote(symbol, volume) == EndsWith(symbol, defaultVs) /\ volume > 0

\* C22: for every configuration and every ticker table, get_crypto_list(limit)
\* returns at most limit entries; every entry is a pair quoted in the
\* configured default settlement currency with nonzero quote volume; entries
\* are in non-increasing order of quote volume; and no omitted qualifying pair
\* has a larger quote volume than a returned one.
C22_TopByVolume ==
  coined =>
    /\ Len(coins) <= listLimit
    /\ \A i \in DOMAIN coins : InDefaultQuote(coins[i].symbol, coins[i].quote_volume_24h)
    /\ \A i, j \in DOMAIN coins :
         i < j => coins[i].quote_volume_24h >= coins[j].quote_volume_24h
    /\ \A k \in DOMAIN tickers :
         (/\ InDefaultQuote(tickers[k].symbol, tickers[k].quoteVolume)
          /\ \A i \in DOMAIN coins : coins[i].symbol # tickers[k].symbol)
           => \A i \in DOMAIN coins : tickers[k].quoteVolume <= coins[i].quote_volume_24h

\* every provider call the request made timed out on every attempt
AllTimedOut(c) ==
  \/ /\ c.op = "get_daily" /\ c.sym = "us" /\ enableUs /\ c.p3 = "Timeout"
     /\ c.p1 = "Timeout" \/ (UsMapped(c.p1) /\ c.p2 = "Timeout")
  \/ c.op = "get_daily" /\ c.sym = "a" /\ c.p1 = "Timeout"
  \/ c.op = "get_daily" /\ c.sym = "hk" /\ enableHk /\ c.p1 = "Timeout"
  \/ c.op = "get_realtime" /\ c.sym \in {"a", "hk"} /\ c.p1 = "Timeout"
  \/ c.op = "get_realtime" /\ c.sym = "us" /\ enableUs /\ c.p1 = "Timeout"
  \/ c.op = "get_hourly" /\ c.sym = "a" /\ c.p1 = "Timeout"
  \/ c.op = "get_crypto_price" /\ c.p1 = "Timeout"

\* the provider answered, with no rows or with no row of the symbol
NoRows(c) ==
  \/ /\ c.op = "get_daily" /\ c.sym = "us" /\ enableUs /\ c.p3 = "empty"
     /\ c.p1 \in {"nomatch", "empty"} \/ (UsMapped(c.p1) /\ c.p2 = "empty")
  \/ c.op = "get_daily" /\ c.sym = "a" /\ c.p1 = "empty"
  \/ c.op = "get_daily" /\ c.sym = "hk" /\ enableHk /\ c.p1 = "empty"
  \/ c.op = "get_realtime" /\ c.sym \in {"a", "hk"} /\ c.p1 \in {"empty", "nomatch"}
  \/ c.op = "get_realtime" /\ c.sym = "us" /\ enableUs /\ c.p1 \in {"empty", "nomatch"}
  \/ c.op = "get_hourly" /\ c.sym = "a" /\ c.p1 = "empty"
  \/ c.op = "get_crypto_price" /\ c.p1 = "empty"

\* The messages that say "try again later" and those that say "no data, check
\* the code"; the US history message names both reasons and counts as either.
TryLaterReplies == {"retry", "usfailed"}
NoDataReplies == {"nodata", "notfound", "usfailed"}

\* C23: the failure class decides the reply. A request whose provider call
\* times out on every attempt is answered with a "try again later" message, a
\* request whose provider returns no rows or no matching row with a "no data
\* found, check the code" message, neither with the other's message, and a
\* structured error returned by get_realtime is rendered as its own hint; for
\* the price, price_now, price_chart and crypto price commands.
C23_FailureClassReply ==
  said.command # "none" =>
    /\ AllTimedOut(srcCall) => said.reply \in TryLaterReplies
    /\ NoRows(srcCall) => said.reply \in NoDataReplies
    /\ (srcCall.op = "get_realtime" /\ "error" \in srcKeys) => said.reply = "hint"

\* the panels the flags call for: the candles, the volume if show_volume, MACD
\* and KDJ if enable_technical_analysis and show_indicators
PanelCount == 1 + (IF showVolume THEN 1 ELSE 0)
                + (IF techAnalysis /\ showIndicators THEN 2 ELSE 0)

\* C24: for every combination of show_volume, enable_technical_analysis and
\* show_indicators, with chart generation enabled, both plot_stock_chart
\* implementations build exactly 1 + (1 if volume) + (2 if technical analysis
\* and indicators) panels with height ratios 3:1:1:1, draw only into panels
\* that exist, and return a file path rather than null for a well-formed
\* series.
C24_PanelsAndPath ==
  (plot.impl # "none" /\ enableChart) =>
    /\ Len(plot.ratios) = PanelCount
    /\ \A i \in DOMAIN plot.ratios : plot.ratios[i] = (IF i = 1 THEN 3 ELSE 1)
    /\ \A i \in DOMAIN plot.drawn : plot.drawn[i].panel < Len(plot.ratios)
    /\ plot.out = "path"

\* the value is 50
Is50(x) == x = Rat(50, 1)

\* C25: in calculate_kdj RSV is 50 at every bar where the rolling range
\* max(high, n) - min(low, n) is zero, whatever the close of that bar is
\* (including records whose high and low the data source defaulted to 0), so
\* that K, D and J are finite numbers; in particular, when high = low for all
\* bars, RSV is 50 for every bar.
C25_FlatRangeRsv50 ==
  kdj.done =>
    /\ \A i \in DOMAIN ohlc :
         RollingRange(ohlc, i, KdjN) = 0 => Is50(kdj.rsv[i])
    /\ \A i \in DOMAIN ohlc :
         IsFinite(kdj.k[i]) /\ IsFinite(kdj.d[i]) /\ IsFinite(kdj.j[i])
    /\ (\A i \in DOMAIN ohlc : ohlc[i].high = ohlc[i].low)
         => \A i \in DOMAIN ohlc : Is50(kdj.rsv[i])

\* the bars are in ascending order of open time
Chronological(rows) ==
  \A i, j \in DOMAIN rows : i < j => rows[i].timestamp < rows[j].timestamp

\* C26: for every period (daily, hourly, 1min .. 60min) the series that
\* crypto_chart hands to plot_stock_chart is in ascending chronological order,
\* although get_crypto_klines delivers it newest first; the command's sort
\* restores the order also among bars that share one trade_date.
C26_ChartedAscending ==
  (shown.command = "crypto_chart" /\ shown.rendered) => Chronological(shown.bars)

\* the most recent n bars of a series that is oldest first
LastRows(rows, n) == SubSeq(rows, (IF Len(rows) > n THEN Len(rows) - n + 1 ELSE 1), Len(rows))

\* the effective limit: default_limit clamped to 5..60, or the user's limit
\* clamped to 5..120
EffectiveLimit ==
  IF shown.limit.k = "int" THEN Clamp(5, 120, shown.limit.n) ELSE Clamp(5, 60, defaultLimit)

\* C27: when the fetched series has more bars than the effective limit, the
\* price list and price_chart / index_chart without a date range show the
\* most recent `limit` bars, not the oldest; the effective limit is
\* default_limit clamped to 5..60, or the user's limit clamped to 5..120.
C27_MostRecentBars ==
  (shown.command \in {"price", "price_chart", "index_chart"} /\ shown.rendered /\ ~shown.ranged)
    => shown.bars = LastRows(fetched, EffectiveLimit)

\* the operation of the task was invoked on a pool worker
Started(t) == tstate[t] \in {"running", "finished", "discarded"}

\* C28: whenever _fetch_with_timeout raises Timeout, the operation had
\* started executing on a pool worker, so that every attempt the retry loop
\* counts corresponds to one invocation of the operation, also when abandoned
\* tasks occupy all three workers.
C28_TimeoutAfterStart ==
  \A r \in Requests : \A a \in Attempts :
    (a < Len(fails[r]) /\ fails[r][a + 1] = "Timeout") => Started(<<r, a>>)

\* str.split('.')[-1]: the ticker of a code, the part after its market prefix
RECURSIVE TickerPart(_)
TickerPart(c) ==
  IF \E i \in DOMAIN c : c[i] = "." THEN TickerPart(Tail(c)) ELSE c

\* the table has a row whose ticker is exactly the wanted one
HasExactRow == \E i \in DOMAIN snapshot : TickerPart(snapshot[i].code) = Upper(wanted)

\* C29: for T.US, the quote-table row that get_realtime reports, and the row
\* get_daily maps the ticker with, is a row whose ticker part equals T
\* whenever the table contains such a row; a different ticker that merely
\* ends with T, or a row whose name contains T, is never selected then.
C29_ExactTickerRow ==
  (picked.op # "none" /\ enableUs /\ HasExactRow)
    => picked.found /\ TickerPart(picked.row.code) = Upper(wanted)

\* C30: every record get_daily(symbol, start, end) returns has its trade_date
\* within [start, end], start defaulting to default_days_back days before
\* today and end to today, for every market and every provider strategy, the
\* secondary US strategy included.
C30_WithinRange ==
  dated.sym # "none" =>
    \A i \in DOMAIN dated.days :
      StartDate(dated.start) <= dated.days[i] /\ dated.days[i] <= EndDate(dated.end)

====
